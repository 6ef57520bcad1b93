---------------------------- MODULE RabbitBroker ----------------------------
(***************************************************************************)
(* RabbitMQ as this service uses it: three durable work queues, one        *)
(* channel per running instance and work queue, manual acknowledgement,    *)
(* a prefetch limit, and the error queues behind the exchange              *)
(* "notifications".                                                        *)
(*                                                                         *)
(* The broker is not part of the repository.  It is modelled from the      *)
(* calls the code makes: queue_declare / basic_consume                     *)
(* (transactions_consumer.rs), basic_qos (r2d2.rs), basic_ack / basic_nack *)
(* (lib.rs), basic_publish (transactions_publisher.rs).                    *)
(*                                                                         *)
(* A message is a natural number and the numbers of one work queue follow  *)
(* the order in which they were published.  A work queue is then the SET   *)
(* of its waiting messages: the head is the smallest one, and a requeued   *)
(* message takes its old place again, as RabbitMQ does.                    *)
(*                                                                         *)
(* This module offers action fragments; Notificator composes them with the *)
(* consumer tasks.                                                         *)
(***************************************************************************)
EXTENDS Naturals, FiniteSets, Sequences

CONSTANTS
  Instances,  \* processes running `server`; more than one during a rollout
  Msgs,       \* the notifications, numbered in publishing order
  QueueOf,    \* the work queue every notification is published to
  Tags        \* delivery tags; a tag nobody holds any more may be used again

Queues == {"pushes", "callbacks", "emails"}

Consumers == Instances \X Queues

ChannelsOf(I) == {c \in Consumers : c[1] \in I}

Deliveries == [tag : Tags, msg : Msgs]

ASSUME BrokerAssumption ==
  /\ Msgs \subseteq Nat
  /\ QueueOf \in [Msgs -> Queues]
  /\ Tags \subseteq Nat \ {0}

VARIABLES
  published,    \* notifications the other services have published so far
  ready,        \* notifications waiting in their work queue
  outstanding,  \* per channel: deliveries the broker holds as unacknowledged
  inbox,        \* per channel: deliveries the task has not polled yet
  frames,       \* per channel: ack and nack frames on their way to the broker
  link,         \* per instance: "stopped", "connected", or "broken"
  errorQueue    \* notifications parked in the error queues

brokerVars ==
  <<published, ready, outstanding, inbox, frames, link, errorQueue>>

Connected(c) == link[c[1]] = "connected"

\* Mutant: the name in the closure of `subscribe` is not the one it is given,
\* and every channel of an instance consumes the same queue.
SubscribedToOne(c) == "callbacks"

\* The work queue that the channel of c consumes: `subscribe` opens one channel
\* for each name and hands the name on with it.
Subscribed(c) == c[2]

(***************************************************************************)
(* Frames a task sends.  basic_ack(delivery_tag, false) names one delivery;*)
(* basic_nack(0, true, true) names, with tag 0 and `multiple`, everything  *)
(* outstanding on the channel, and asks for it to be requeued.             *)
(***************************************************************************)
AckFrame(t) == [kind |-> "ack", tag |-> t]

\* Mutant: a negative acknowledgement without requeue.
NackWithoutRequeue == [kind |-> "ack", tag |-> 0]

NackFrame == [kind |-> "nack", tag |-> 0]

Covered(c, f) == {d \in outstanding[c] : f.tag \in {0, d.tag}}

MsgsOf(D) == {d.msg : d \in D}

\* Mutant: a larger prefetch, which the tag-0 nack does not survive.
PrefetchTwo == 2

\* CONSUMER_PREFETCH_COUNT, set with basic_qos on every channel.
Prefetch == 1

BrokerInit ==
  /\ published = {}
  /\ ready = {}
  /\ outstanding = [c \in Consumers |-> {}]
  /\ inbox = [c \in Consumers |-> <<>>]
  /\ frames = [c \in Consumers |-> <<>>]
  /\ link = [i \in Instances |-> "stopped"]
  /\ errorQueue = {}

\* Another service publishes notification m to its work queue.
Enqueue(m) ==
  /\ m \notin published
  /\ \A k \in Msgs : (k < m /\ QueueOf[k] = QueueOf[m]) => k \in published
  /\ published' = published \cup {m}
  /\ ready' = ready \cup {m}
  /\ UNCHANGED <<outstanding, inbox, frames, link, errorQueue>>

\* m is the oldest notification waiting in work queue q.
IsHead(m, q) ==
  /\ m \in ready /\ QueueOf[m] = q
  /\ \A k \in ready : QueueOf[k] = q => m <= k

\* The least tag that is not in use on the channel.
IsFresh(t, used) == /\ t \in Tags \ used
                    /\ \A u \in Tags : u < t => u \in used

\* basic.deliver to channel c; `used` are the tags of c still in use.
Deliver(c, used) ==
  /\ Connected(c)
  /\ Cardinality(outstanding[c]) < Prefetch
  /\ \E m \in ready, t \in Tags :
       LET d == [tag |-> t, msg |-> m]
       IN  /\ IsHead(m, Subscribed(c))
           /\ IsFresh(t, used)
           /\ ready' = ready \ {m}
           /\ outstanding' = [outstanding EXCEPT ![c] = @ \cup {d}]
           /\ inbox' = [inbox EXCEPT ![c] = Append(@, d)]
  /\ UNCHANGED <<published, frames, link, errorQueue>>

\* A frame leaves the client.  On a broken connection it is lost.
SendFrame(c, f) ==
  frames' = IF Connected(c) THEN [frames EXCEPT ![c] = Append(@, f)]
                            ELSE frames

\* The broker handles an ack: the notification is removed for good.
ApplyAck(c) ==
  /\ frames[c] # <<>> /\ Head(frames[c]).kind = "ack"
  /\ outstanding' = [outstanding EXCEPT ![c] = @ \ Covered(c, Head(frames[c]))]
  /\ frames' = [frames EXCEPT ![c] = Tail(@)]
  /\ UNCHANGED <<published, ready, inbox, link, errorQueue>>

\* The broker handles a nack: what it covers goes back to its work queue.
ApplyNack(c) ==
  /\ frames[c] # <<>> /\ Head(frames[c]).kind = "nack"
  /\ LET D == Covered(c, Head(frames[c]))
     IN  /\ outstanding' = [outstanding EXCEPT ![c] = @ \ D]
         /\ ready' = ready \cup MsgsOf(D)
  /\ frames' = [frames EXCEPT ![c] = Tail(@)]
  /\ UNCHANGED <<published, inbox, link, errorQueue>>

HeldBy(I) == UNION {MsgsOf(outstanding[c]) : c \in ChannelsOf(I)}

\* The connections of instances I are gone for the broker: their channels
\* close, what was outstanding on them is requeued, frames in flight are lost.
CloseChannels(I) ==
  /\ ready' = ready \cup HeldBy(I)
  /\ outstanding' =
       [c \in Consumers |-> IF c[1] \in I THEN {} ELSE outstanding[c]]
  /\ frames' = [c \in Consumers |-> IF c[1] \in I THEN <<>> ELSE frames[c]]

\* Notifications the broker still owns: waiting, or delivered without ack.
Pending == ready \cup HeldBy(Instances)

BrokerTypeOK ==
  /\ published \subseteq Msgs
  /\ ready \subseteq Msgs
  /\ outstanding \in [Consumers -> SUBSET Deliveries]
  /\ inbox \in [Consumers -> Seq(Deliveries)]
  /\ frames \in [Consumers -> Seq([kind : {"ack", "nack"}, tag : Tags \cup {0}])]
  /\ link \in [Instances -> {"stopped", "connected", "broken"}]
  /\ errorQueue \subseteq Msgs
=============================================================================
