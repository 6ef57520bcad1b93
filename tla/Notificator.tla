---------------------------- MODULE Notificator -----------------------------
(***************************************************************************)
(* The service: instances of `server`, each with one task per work queue   *)
(* (lib.rs, start_server), the handler a task runs for a delivery          *)
(* (services/rabbit.rs: handle_message, send_email, send_callback), the    *)
(* remote services it calls and the error queues it publishes to.          *)
(*                                                                         *)
(* A task is the future built from `stream.for_each(...)`: it takes the    *)
(* next delivery only when the future of the previous one is resolved.     *)
(* Its states:                                                             *)
(*   "idle"        polling the consumer stream                             *)
(*   "sending"     an HTTP request of attempt tries[c] is in flight        *)
(*   "waiting"     the delay after a failed attempt                        *)
(*   "publishing"  error_callbacks / error_emails is in flight             *)
(*   "acking"      handle_message resolved with Ok, basic_ack is next      *)
(*   "failed"      it resolved with Err or timed out; after                *)
(*                 DELAY_BEFORE_NACK basic_nack is next                    *)
(*   "ended"       the for_each future is resolved, or there is no process *)
(*                                                                         *)
(* Time is left out: the handler's Timeout may fire whenever the handler   *)
(* runs (RetryTiming counts the seconds).  What may go wrong is listed in  *)
(* FaultKinds and each kind happens at most Faults[kind] times in a        *)
(* behaviour; a remote service may refuse any request at no cost.          *)
(***************************************************************************)
EXTENDS RabbitBroker

CONSTANTS
  Malformed,    \* notifications whose payload `parse` rejects
  MaxAttempts,  \* length of the list of retry delays (11 in the code)
  Faults,       \* how often each kind of fault may happen
  None          \* "no delivery"

FaultKinds ==
  {"timeout",     \* Timeout::new(fetcher_future, ...) elapses
   "crash",       \* the process ends: panic, kill, rollout
   "connection",  \* the AMQP connection of a running instance is lost
   "broker",      \* the broker restarts
   "publish",     \* the broker refuses an error-queue message
   "timer",       \* a tokio Delay of the retry loop resolves with an error
   "answer"}      \* a remote service does the work, its answer is unusable

ASSUME NotificatorAssumption ==
  /\ Malformed \subseteq Msgs
  /\ MaxAttempts \in Nat \ {0}
  /\ Faults \in [FaultKinds -> Nat]
  /\ None \notin Deliveries

VARIABLES
  phase,      \* per task: see above
  cur,        \* per task: the delivery it handles
  tries,      \* per task: number of the current attempt
  req,        \* per task: what became of the request or publication in flight
  stray,      \* how many abandoned requests may still reach the remote service
  late,       \* abandoned publications that may still reach the broker
  accepts,    \* how often the remote side processed the notification
  excused,    \* given up by a swallowed error, see PublishDone
  hits,       \* how many faults that allow a repetition hit the notification
  budget      \* faults that may still happen

taskVars == <<phase, cur, tries, req>>
historyVars == <<stray, late, accepts, excused, hits>>
vars == <<brokerVars, taskVars, historyVars, budget>>

Phases == {"idle", "sending", "waiting", "publishing", "acking", "failed",
           "ended"}

Handling == {"sending", "waiting", "publishing"}

Busy == Handling \cup {"acking", "failed"}

ReqStates == {"none", "sent", "ok", "unusable", "refused"}

TypeOK ==
  /\ BrokerTypeOK
  /\ phase \in [Consumers -> Phases]
  /\ cur \in [Consumers -> Deliveries \cup {None}]
  /\ tries \in [Consumers -> 0..MaxAttempts]
  /\ req \in [Consumers -> ReqStates]
  /\ stray \in [Msgs -> Nat]
  /\ late \subseteq Instances \X Msgs
  /\ accepts \in [Msgs -> Nat]
  /\ excused \subseteq Msgs
  /\ hits \in [Msgs -> Nat]
  /\ budget \in [FaultKinds -> Nat]

-----------------------------------------------------------------------------
(* Helpers.                                                                *)

Spend(kind) == /\ budget[kind] > 0
               /\ budget' = [budget EXCEPT ![kind] = @ - 1]

SetTask(c, p, d, n, r) ==
  /\ phase' = [phase EXCEPT ![c] = p]
  /\ cur' = [cur EXCEPT ![c] = d]
  /\ tries' = [tries EXCEPT ![c] = n]
  /\ req' = [req EXCEPT ![c] = r]

\* The task keeps its delivery and its attempt.
Move(c, p, r) == SetTask(c, p, cur[c], tries[c], r)

\* The for_each closure is done with the delivery and polls the stream.
NextPoll(c) == SetTask(c, "idle", None, 0, "none")

EndTask(c) == SetTask(c, "ended", None, 0, "none")

\* The remote side has processed m one more time.
Counted(m) == [accepts EXCEPT ![m] = @ + 1]

\* A fault hits the notifications of S.
Hit(S) == [m \in Msgs |-> IF m \in S THEN hits[m] + 1 ELSE hits[m]]

\* Tags of channel c that somebody still holds.
UsedTags(c) == {d.tag : d \in outstanding[c]}
               \cup {inbox[c][k].tag : k \in DOMAIN inbox[c]}
               \cup {frames[c][k].tag : k \in DOMAIN frames[c]}
               \cup (IF cur[c] = None THEN {} ELSE {cur[c].tag})

-----------------------------------------------------------------------------
(* The environment publishes, the broker delivers and applies frames.      *)

Publish(m) == Enqueue(m) /\ UNCHANGED <<taskVars, historyVars, budget>>

BrokerDeliver(c) ==
  Deliver(c, UsedTags(c)) /\ UNCHANGED <<taskVars, historyVars, budget>>

BrokerAck(c) == ApplyAck(c) /\ UNCHANGED <<taskVars, historyVars, budget>>

BrokerNack(c) == ApplyNack(c) /\ UNCHANGED <<taskVars, historyVars, budget>>

-----------------------------------------------------------------------------
(* A task.                                                                 *)

\* start_server: connect, open the channels, subscribe, spawn the tasks.
\* Startup happens in one step here.
Start(i) ==
  /\ link[i] = "stopped"
  /\ link' = [link EXCEPT ![i] = "connected"]
  /\ phase' = [c \in Consumers |-> IF c[1] = i THEN "idle" ELSE phase[c]]
  /\ UNCHANGED <<published, ready, outstanding, inbox, frames, errorQueue,
                 cur, tries, req, historyVars, budget>>

\* The stream yields the next delivery d and handle_message is called.
Poll(c, d) ==
  /\ phase[c] = "idle" /\ inbox[c] # <<>>
  /\ d = Head(inbox[c])
  /\ inbox' = [inbox EXCEPT ![c] = Tail(@)]
  /\ UNCHANGED <<published, ready, outstanding, frames, link, errorQueue,
                 historyVars, budget>>

\* Push notifications are disabled: handle_message is Ok at once, unparsed.
TakePush(c) ==
  \E d \in Deliveries : /\ Poll(c, d)
                        /\ c[2] = "pushes"
                        /\ SetTask(c, "acking", d, 0, "none")

\* Mutant: a payload that does not parse is dropped like other errors.
TakeMalformedAcks(c) ==
  \E d \in Deliveries : /\ Poll(c, d)
                        /\ c[2] # "pushes" /\ d.msg \in Malformed
                        /\ SetTask(c, "acking", d, 0, "none")

\* `parse` fails and so does handle_message.
TakeMalformed(c) ==
  \E d \in Deliveries : /\ Poll(c, d)
                        /\ c[2] # "pushes" /\ d.msg \in Malformed
                        /\ SetTask(c, "failed", d, 0, "none")

\* send_callback / send_email starts with its first attempt.
TakeAndSend(c) ==
  \E d \in Deliveries : /\ Poll(c, d)
                        /\ c[2] # "pushes" /\ d.msg \notin Malformed
                        /\ SetTask(c, "sending", d, 1, "sent")

\* The remote service processes the request of c; its answer arrives and is
\* one the client takes for success.
RemoteAccept(c) ==
  /\ phase[c] = "sending" /\ req[c] = "sent"
  /\ accepts' = Counted(cur[c].msg)
  /\ Move(c, "sending", "ok")
  /\ UNCHANGED <<brokerVars, stray, late, excused, hits, budget>>

\* It processes the request, but the answer is lost or not understood:
\* a response cut off, a body that is not UTF-8 or not the expected JSON.
RemoteAcceptUnusable(c) ==
  /\ phase[c] = "sending" /\ req[c] = "sent"
  /\ Spend("answer")
  /\ accepts' = Counted(cur[c].msg)
  /\ hits' = Hit({cur[c].msg})
  /\ Move(c, "sending", "unusable")
  /\ UNCHANGED <<brokerVars, stray, late, excused>>

\* The request fails without effect: refused, unreachable, error status.
RemoteRefuse(c) ==
  /\ phase[c] = "sending" /\ req[c] = "sent"
  /\ Move(c, "sending", "refused")
  /\ UNCHANGED <<brokerVars, historyVars, budget>>

\* Mutant: the closure returns Ok after a success, and the loop goes on.
AttemptOkGoesOn(c) ==
  /\ phase[c] = "sending" /\ req[c] = "ok"
  /\ Move(c, "waiting", "none")
  /\ UNCHANGED <<brokerVars, historyVars, budget>>

\* Mutant: the Err(()) that stands for success is not made an Ok at the end.
AttemptOkLeaks(c) ==
  /\ phase[c] = "sending" /\ req[c] = "ok"
  /\ Move(c, "failed", "none")
  /\ UNCHANGED <<brokerVars, historyVars, budget>>

\* Ok(_) => future::err(()) leaves the loop; `.then` makes it Ok(()).
AttemptOk(c) ==
  /\ phase[c] = "sending" /\ req[c] = "ok"
  /\ Move(c, "acking", "none")
  /\ UNCHANGED <<brokerVars, historyVars, budget>>

\* Err(e) => the delay of this attempt.
AttemptFailed(c) ==
  /\ phase[c] = "sending" /\ req[c] \in {"refused", "unusable"}
  /\ Move(c, "waiting", "none")
  /\ UNCHANGED <<brokerVars, historyVars, budget>>

\* Mutant: one attempt more than there are delays.
RetryOnceMore(c) ==
  /\ phase[c] = "waiting" /\ tries[c] <= MaxAttempts
  /\ SetTask(c, "sending", cur[c], tries[c] + 1, "sent")
  /\ UNCHANGED <<brokerVars, historyVars, budget>>

\* The delay is over and the list of delays has another element.
Retry(c) ==
  /\ phase[c] = "waiting" /\ tries[c] < MaxAttempts
  /\ SetTask(c, "sending", cur[c], tries[c] + 1, "sent")
  /\ UNCHANGED <<brokerVars, historyVars, budget>>

\* Mutant: the end of the list is taken for a success, nothing is published.
GiveUpUnpublished(c) ==
  /\ phase[c] = "waiting" /\ tries[c] >= MaxAttempts
  /\ Move(c, "acking", "none")
  /\ UNCHANGED <<brokerVars, historyVars, budget>>

\* The list is exhausted: for_each is Ok and the error queue is next.
GiveUp(c) ==
  /\ phase[c] = "waiting" /\ tries[c] >= MaxAttempts
  /\ Move(c, "publishing", "sent")
  /\ UNCHANGED <<brokerVars, historyVars, budget>>

\* The Delay itself fails.  map_err(|_| ()) makes this the same Err(()) as a
\* success: the loop ends, nothing is published, handle_message is Ok.
RetryTimerFails(c) ==
  /\ phase[c] = "waiting"
  /\ Spend("timer")
  /\ Move(c, "acking", "none")
  /\ excused' = IF Connected(c) THEN excused \cup {cur[c].msg} ELSE excused
  /\ UNCHANGED <<brokerVars, stray, late, accepts, hits>>

\* The broker routes and confirms the error message.
ErrorStored(c) ==
  /\ phase[c] = "publishing" /\ req[c] = "sent" /\ Connected(c)
  /\ errorQueue' = errorQueue \cup {cur[c].msg}
  /\ Move(c, "publishing", "ok")
  /\ UNCHANGED <<published, ready, outstanding, inbox, frames, link,
                 historyVars, budget>>

\* It does not: the connection is gone, or the broker answers with a nack.
ErrorRefused(c) ==
  /\ phase[c] = "publishing" /\ req[c] = "sent"
  /\ IF Connected(c) THEN Spend("publish") ELSE UNCHANGED budget
  /\ Move(c, "publishing", "refused")
  /\ UNCHANGED <<brokerVars, historyVars>>

\* error_callbacks / error_emails resolves.  An error is logged and becomes
\* Ok(()); a broker nack is an Ok(None) that `.map(|_| ())` discards.
PublishDone(c) ==
  /\ phase[c] = "publishing" /\ req[c] \in {"ok", "refused"}
  /\ Move(c, "acking", "none")
  /\ excused' = IF req[c] = "refused" /\ Connected(c)
                THEN excused \cup {cur[c].msg} ELSE excused
  /\ UNCHANGED <<brokerVars, stray, late, accepts, hits, budget>>

\* The request of task c, if still unanswered, is abandoned on its way.
Abandoned(c) == IF phase[c] = "sending" /\ req[c] = "sent"
                THEN {cur[c].msg} ELSE {}

\* The tasks of C, of which no two handle the same notification, are dropped
\* with their requests.
WithStrays(C) ==
  [m \in Msgs |-> IF \E c \in C : m \in Abandoned(c) THEN stray[m] + 1 ELSE stray[m]]

\* Mutant: the closure after the Timeout acknowledges in every case.
TimeoutAcks(c) ==
  /\ phase[c] \in Handling
  /\ Spend("timeout")
  /\ stray' = WithStrays({c})
  /\ hits' = Hit({cur[c].msg})
  /\ SetTask(c, "acking", cur[c], 0, "none")
  /\ UNCHANGED <<brokerVars, late, accepts, excused>>

\* The Timeout around handle_message fires; the handler's future is dropped
\* with whatever it was doing; a request or a publication that has left the
\* process may still arrive.
HandlerTimeout(c) ==
  /\ phase[c] \in Handling
  /\ Spend("timeout")
  /\ stray' = WithStrays({c})
  /\ late' = IF phase[c] = "publishing" /\ req[c] = "sent" /\ Connected(c)
             THEN late \cup {<<c[1], cur[c].msg>>} ELSE late
  /\ hits' = Hit({cur[c].msg})
  /\ SetTask(c, "failed", cur[c], 0, "none")
  /\ UNCHANGED <<brokerVars, accepts, excused>>

\* A request nobody waits for any more is processed after all, or never.
StrayAccept(m) ==
  /\ stray[m] > 0
  /\ stray' = [stray EXCEPT ![m] = @ - 1]
  /\ accepts' = Counted(m)
  /\ UNCHANGED <<brokerVars, taskVars, late, excused, hits, budget>>

\* A publication nobody waits for any more is stored after all, or never.
LateStored(i, m) ==
  /\ <<i, m>> \in late
  /\ late' = late \ {<<i, m>>}
  /\ errorQueue' = errorQueue \cup {m}
  /\ UNCHANGED <<published, ready, outstanding, inbox, frames, link, taskVars,
                 stray, accepts, excused, hits, budget>>

\* basic_ack resolves; on a broken connection it may not notice.
Ack(c) ==
  /\ phase[c] = "acking"
  /\ SendFrame(c, AckFrame(cur[c].tag))
  /\ NextPoll(c)
  /\ UNCHANGED <<published, ready, outstanding, inbox, link, errorQueue,
                 historyVars, budget>>

\* Mutant: a failure is only logged.
NackForgotten(c) ==
  /\ phase[c] = "failed"
  /\ NextPoll(c)
  /\ UNCHANGED <<brokerVars, historyVars, budget>>

\* basic_nack(0, true, true), DELAY_BEFORE_NACK after the failure.
Nack(c) ==
  /\ phase[c] = "failed"
  /\ SendFrame(c, NackFrame)
  /\ NextPoll(c)
  /\ UNCHANGED <<published, ready, outstanding, inbox, link, errorQueue,
                 historyVars, budget>>

\* Mutant: errors of the stream, the ack and the nack are swallowed one by one.
TaskPollsAgain(c) ==
  /\ link[c[1]] = "broken"
  /\ phase[c] \in {"idle", "acking", "failed"}
  /\ NextPoll(c)
  /\ UNCHANGED <<brokerVars, historyVars, budget>>

\* On a broken connection the stream, the ack or the nack resolves with an
\* error: for_each stops and nothing subscribes this task again.
TaskEnds(c) ==
  /\ link[c[1]] = "broken"
  /\ phase[c] \in {"idle", "acking", "failed"}
  /\ EndTask(c)
  /\ UNCHANGED <<brokerVars, historyVars, budget>>

-----------------------------------------------------------------------------
(* Faults of a process, a connection, the broker.                          *)

\* The process ends: its tasks are gone, the broker requeues.
Crash(i) ==
  /\ link[i] # "stopped"
  /\ Spend("crash")
  /\ CloseChannels({i})
  /\ link' = [link EXCEPT ![i] = "stopped"]
  /\ LET ended == ChannelsOf({i}) IN
       /\ inbox' = [c \in Consumers |-> IF c \in ended THEN <<>> ELSE inbox[c]]
       /\ phase' = [c \in Consumers |-> IF c \in ended THEN "ended" ELSE phase[c]]
       /\ cur' = [c \in Consumers |-> IF c \in ended THEN None ELSE cur[c]]
       /\ tries' = [c \in Consumers |-> IF c \in ended THEN 0 ELSE tries[c]]
       /\ req' = [c \in Consumers |-> IF c \in ended THEN "none" ELSE req[c]]
       /\ stray' = WithStrays(ended)
  /\ late' = {p \in late : p[1] # i}
  /\ hits' = Hit(HeldBy({i}))
  /\ UNCHANGED <<published, errorQueue, accepts, excused>>

\* The broker drops the connection of a running instance (missed heartbeats,
\* network).  The heartbeat task only logs; the tasks go on with what they
\* have polled or can still poll.
ConnectionLost(i) ==
  /\ link[i] = "connected"
  /\ Spend("connection")
  /\ CloseChannels({i})
  /\ link' = [link EXCEPT ![i] = "broken"]
  /\ late' = {p \in late : p[1] # i}
  /\ hits' = Hit(HeldBy({i}))
  /\ UNCHANGED <<published, inbox, errorQueue, taskVars, stray, accepts,
                 excused>>

\* The broker restarts.  Queues are durable and the work is assumed to be
\* published as persistent; an error message is published with default
\* properties, that is as transient, and does not survive.
BrokerRestart ==
  /\ Spend("broker")
  /\ CloseChannels(Instances)
  /\ link' = [i \in Instances |-> IF link[i] = "connected" THEN "broken"
                                                            ELSE link[i]]
  /\ errorQueue' = {}
  /\ excused' = excused \cup errorQueue
  /\ late' = {}
  /\ hits' = Hit(HeldBy(Instances))
  /\ UNCHANGED <<published, inbox, taskVars, stray, accepts>>

-----------------------------------------------------------------------------
Init ==
  /\ BrokerInit
  /\ phase = [c \in Consumers |-> "ended"]
  /\ cur = [c \in Consumers |-> None]
  /\ tries = [c \in Consumers |-> 0]
  /\ req = [c \in Consumers |-> "none"]
  /\ stray = [m \in Msgs |-> 0]
  /\ late = {}
  /\ accepts = [m \in Msgs |-> 0]
  /\ excused = {}
  /\ hits = [m \in Msgs |-> 0]
  /\ budget = Faults

BrokerStep(c) == BrokerDeliver(c) \/ BrokerAck(c) \/ BrokerNack(c)

\* What the runtime does for a task when it is woken.
TaskStep(c) ==
  \/ TakePush(c) \/ TakeMalformed(c) \/ TakeAndSend(c)
  \/ AttemptOk(c) \/ AttemptFailed(c) \/ Retry(c) \/ GiveUp(c)
  \/ PublishDone(c) \/ Ack(c) \/ Nack(c) \/ TaskEnds(c)

\* What the other side does with a request or publication of task c.
Answer(c) ==
  \/ RemoteAccept(c) \/ RemoteRefuse(c) \/ RemoteAcceptUnusable(c)
  \/ ErrorStored(c) \/ ErrorRefused(c)

TaskFault(c) == RetryTimerFails(c) \/ HandlerTimeout(c)

Next ==
  \/ \E m \in Msgs : Publish(m) \/ StrayAccept(m)
  \/ \E c \in Consumers : BrokerStep(c) \/ TaskStep(c) \/ Answer(c) \/ TaskFault(c)
  \/ \E i \in Instances : Start(i) \/ Crash(i) \/ ConnectionLost(i)
  \/ \E i \in Instances, m \in Msgs : LateStored(i, m)
  \/ BrokerRestart

Spec == Init /\ [][Next]_vars

(***************************************************************************)
(* Fairness: the tokio runtime polls a task that was woken, the broker     *)
(* delivers and applies frames, a container that exited is started again   *)
(* (a Deployment's pods restart), and a remote service or the broker       *)
(* answers in the end.  No fairness for publishing, for faults, for stray  *)
(* requests and late publications.                                         *)
(***************************************************************************)
Fairness ==
  /\ \A c \in Consumers : /\ WF_vars(BrokerStep(c))
                          /\ WF_vars(TaskStep(c))
                          /\ WF_vars(Answer(c))
  /\ \A i \in Instances : WF_vars(Start(i))

FairSpec == Spec /\ Fairness

-----------------------------------------------------------------------------
(* Properties.                                                             *)

IsPush(m) == QueueOf[m] = "pushes"

\* What has left its work queue for good.
Discharged == published \ Pending

\* What a fault has hit that allows a repetition.
Disturbed == {m \in Msgs : hits[m] > 0}

\* What an abandoned request may still reach the remote service for.
Strays == {m \in Msgs : stray[m] > 0}

\* What became of notification m is known: processed by the remote service,
\* parked in an error queue, ignored by design, or given up.
Settled(m) == IsPush(m) \/ accepts[m] > 0 \/ m \in errorQueue \/ m \in excused

(***************************************************************************)
(* No notification leaves its work queue before it was processed, parked   *)
(* or given up by one of the swallowed errors: an ack is only sent, and    *)
(* only covers, what the handler finished.  (lib.rs: ack after Ok, nack    *)
(* after Err or timeout, through crashes, lost connections, broker         *)
(* restarts and redeliveries.)                                             *)
(***************************************************************************)
NoSilentLoss == \A m \in Discharged : Settled(m)

(***************************************************************************)
(* On a live channel a task settles only what it holds: whatever it has    *)
(* polled or may still poll is outstanding at the broker, and while the    *)
(* nack of tag 0 with `multiple` travels, the channel has nothing else it  *)
(* could requeue by mistake.  This is what CONSUMER_PREFETCH_COUNT = 1 is  *)
(* needed for.                                                             *)
(***************************************************************************)
SettlesWhatItHolds ==
  \A c \in Consumers : Connected(c) =>
    /\ cur[c] # None => cur[c] \in outstanding[c]
    /\ \A k \in DOMAIN inbox[c] : inbox[c][k] \in outstanding[c]
    /\ (\E k \in DOMAIN frames[c] : frames[c][k] = NackFrame) =>
         (inbox[c] = <<>> /\ cur[c] = None)

\* The notification is in the hands of a task, or delivered to it.
Holds(c, m) ==
  \/ cur[c] # None /\ cur[c].msg = m
  \/ \E k \in DOMAIN inbox[c] : inbox[c][k].msg = m

(***************************************************************************)
(* Two tasks on live connections never handle the same notification, and   *)
(* one that waits in its queue is not handled at the same time: a requeue  *)
(* happens only after the handler of the requeued delivery has stopped.    *)
(***************************************************************************)
OneHandler ==
  \A c \in Consumers : \A m \in Msgs :
    (Connected(c) /\ Holds(c, m)) =>
      /\ m \notin ready
      /\ \A d \in Consumers \ {c} : Connected(d) => ~Holds(d, m)

\* Where the one outstanding delivery d of a live channel may be: not polled,
\* in the task's hands, or settled by a frame on its way.
Unpolled(c, d) == inbox[c] = <<d>> /\ cur[c] = None /\ frames[c] = <<>>
InHand(c, d) == inbox[c] = <<>> /\ cur[c] = d /\ frames[c] = <<>>
SettledByFrame(c, d) ==
  /\ inbox[c] = <<>> /\ cur[c] = None
  /\ \/ frames[c] = <<NackFrame>>
     \/ frames[c] = <<AckFrame(d.tag)>> /\ Settled(d.msg)

NothingHeld(c) ==
  outstanding[c] = {} /\ inbox[c] = <<>> /\ cur[c] = None /\ frames[c] = <<>>

OneHeld(c) ==
  \E d \in Deliveries : /\ outstanding[c] = {d}
                        /\ Unpolled(c, d) \/ InHand(c, d) \/ SettledByFrame(c, d)

ChannelInv(c) ==
  /\ Connected(c) => NothingHeld(c) \/ OneHeld(c)
  /\ ~Connected(c) => outstanding[c] = {} /\ frames[c] = <<>>
  /\ link[c[1]] = "stopped" => inbox[c] = <<>> /\ cur[c] = None

\* What the phase of a task says about its delivery.
TaskInv(c) ==
  /\ phase[c] \in Busy <=> cur[c] # None
  /\ (phase[c] = "sending" /\ req[c] = "ok") => accepts[cur[c].msg] > 0
  /\ (Connected(c) /\ phase[c] = "publishing" /\ req[c] = "ok") =>
       Settled(cur[c].msg)
  /\ (Connected(c) /\ phase[c] = "acking") => Settled(cur[c].msg)

\* Deliveries carry published notifications of the channel's work queue.
ProvenanceInv(c) ==
  \A d \in Deliveries :
    (d \in outstanding[c] \/ cur[c] = d \/ \E k \in DOMAIN inbox[c] : inbox[c][k] = d)
      => d.msg \in published /\ QueueOf[d.msg] = c[2]

\* A notification is waiting, or outstanding on one channel, not both.
OwnershipInv ==
  /\ ready \cup Strays \subseteq published
  /\ \A p \in late : p[2] \in published
  /\ \A c \in Consumers : \A x \in outstanding[c] :
       /\ x.msg \notin ready
       /\ \A d \in Consumers \ {c} : \A y \in outstanding[d] : y.msg # x.msg

(***************************************************************************)
(* The inductive invariant behind NoSilentLoss, SettlesWhatItHolds and     *)
(* OneHandler: every live channel has at most one outstanding delivery,    *)
(* and that delivery is in exactly one place; an ack is on its way only    *)
(* for a settled notification; every notification has one owner.           *)
(***************************************************************************)
SafetyInv ==
  /\ \A c \in Consumers : ChannelInv(c) /\ TaskInv(c) /\ ProvenanceInv(c)
  /\ OwnershipInv
  /\ NoSilentLoss

(***************************************************************************)
(* The remote service processes a notification at most once, and none it   *)
(* processed is parked as well, unless a timeout, a crash, a lost          *)
(* connection, a broker restart or an unusable answer hit that very        *)
(* notification: the retry loop alone never repeats a success.             *)
(***************************************************************************)
CleanOnce ==
  \A m \in Msgs \ Disturbed :
    /\ accepts[m] < 2
    /\ ~(accepts[m] > 0 /\ m \in errorQueue)

(***************************************************************************)
(* Every repetition has a fault of its own: the remote service processes a *)
(* notification at most once more than faults that allow it have hit that  *)
(* notification - whatever a zombie, a stray request and a redelivery do   *)
(* at the same time, and however often each handler tries.                 *)
(***************************************************************************)
RepetitionsHaveCauses == \A m \in Msgs : accepts[m] <= 1 + hits[m]

\* How many faults of a kind have happened.
Spent(kind) == Faults[kind] - budget[kind]

\* Left its queue, and neither the remote service nor an error queue has it.
Lost == {m \in Discharged : ~IsPush(m) /\ accepts[m] = 0 /\ m \notin errorQueue}

(***************************************************************************)
(* Every loss has a swallowed error of its own: as long as the broker does *)
(* not restart, no more notifications are lost than publications were      *)
(* refused and timers failed.  NoSilentLoss leaves out what is excused;    *)
(* this does not mention it.                                               *)
(***************************************************************************)
LossesHaveCauses ==
  Spent("broker") = 0 => Cardinality(Lost) <= Spent("publish") + Spent("timer")

(***************************************************************************)
(* With a single instance the notifications of one work queue are          *)
(* discharged in the order in which they were published, whatever is       *)
(* retried, requeued or redelivered in between.                            *)
(***************************************************************************)
InOrder ==
  \A m \in Discharged : \A k \in published :
    (k < m /\ QueueOf[k] = QueueOf[m]) => k \in Discharged

(***************************************************************************)
(* With a single instance a notification that `parse` rejects holds up its *)
(* queue for ever: nothing behind it is ever sent to the remote service or *)
(* parked, since the nack requeues it at the head.                         *)
(***************************************************************************)
PoisonBlocksQueue ==
  \A p \in Malformed \cap published : ~IsPush(p) =>
    \A m \in published : (p <= m /\ QueueOf[m] = QueueOf[p]) =>
      accepts[m] = 0 /\ m \notin errorQueue /\ m \notin Discharged

\* What the remote side processed at least once.
Processed == {m \in Msgs : accepts[m] > 0}

(***************************************************************************)
(* The detailed specification implements the ledger: in particular nothing *)
(* discharged becomes pending again.                                       *)
(***************************************************************************)
Ledger == INSTANCE NotificationLedger
  WITH pending <- Pending,
       accepted <- Processed,
       parked <- errorQueue,
       Ignored <- {m \in Msgs : IsPush(m)}

ImplementsLedger == Ledger!LedgerSpec

\* Task c as the retry loop sees it: without its delivery, its request and
\* the difference between a task that polls and one that is not there.
Loop(c) == INSTANCE RetryLoop
  WITH Length <- MaxAttempts,
       Unread <- c[2] = "pushes",
       phase <- IF phase[c] = "ended" THEN "idle" ELSE phase[c],
       attempt <- tries[c]

(***************************************************************************)
(* Whatever happens to a task - a fault, the end of a handler, the steps   *)
(* of the other tasks - it goes through the retry loop as the code chains  *)
(* it: attempt by attempt and delay by delay, to the error queue only from *)
(* the end of the list, to the ack only from where the handler was Ok      *)
(* (services/rabbit.rs:88-144, lib.rs:126-163).                            *)
(***************************************************************************)
TasksRunTheLoop ==
  /\ \A c \in Consumers : Loop(c)!LoopInit
  /\ [][\A c \in Consumers : [Loop(c)!LoopNext]_(Loop(c)!loopVars)]_vars

\* Work queues none of whose notifications is malformed.
HealthyQueues ==
  {q \in Queues : q = "pushes" \/ \A m \in Malformed : QueueOf[m] # q}

(***************************************************************************)
(* Every notification of a healthy queue is discharged in the end, through *)
(* any finite number of timeouts, crashes and refused publications and     *)
(* whatever a malformed notification does to another queue.  (No lost      *)
(* connection: see LostConnectionEndsTasks.)                               *)
(***************************************************************************)
EventuallyDischarged ==
  \A m \in Msgs : QueueOf[m] \in HealthyQueues =>
    (m \in published) ~> (m \in Discharged)

\* Nothing runs for instance i, and nothing will subscribe for it again.
Silenced(i) ==
  link[i] = "broken" /\ \A c \in ChannelsOf({i}) : phase[c] = "ended"

(***************************************************************************)
(* A lost connection silences the instance: all its tasks end, whatever    *)
(* they were doing, and they stay ended until the process itself does.     *)
(* Nothing in lib.rs subscribes again (restart_subscription_secs is the    *)
(* handler's timeout), and the API server keeps the process alive.         *)
(***************************************************************************)
LostConnectionEndsTasks ==
  /\ \A i \in Instances : link[i] = "broken" ~> link[i] = "stopped" \/ Silenced(i)
  /\ [][\A i \in Instances :
          Silenced(i) => Silenced(i)' \/ link'[i] = "stopped"]_vars
=============================================================================
