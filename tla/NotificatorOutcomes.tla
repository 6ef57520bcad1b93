------------------------- MODULE NotificatorOutcomes -------------------------
(***************************************************************************)
(* What becomes of the notifications of Notificator, beyond what SafetyInv *)
(* says: with a single instance they are discharged in order (InOrder) and *)
(* a malformed one holds up its queue (PoisonBlocksQueue); with any number *)
(* of them a success is not repeated without a reason (CleanOnce).  For    *)
(* any notifications, tags, number of attempts and fault budget.           *)
(***************************************************************************)
EXTENDS NotificatorProofs

-----------------------------------------------------------------------------
(* What the steps do, for all three.                                       *)

\* Steps without a fault and without an answer leave the history alone.
LEMMA HistoryUnchanged ==
  ASSUME UNCHANGED historyVars
  PROVE  /\ UNCHANGED <<stray, late, accepts, excused, hits>>
         /\ Strays' = Strays /\ Disturbed' = Disturbed
BY DEF historyVars, Strays, Disturbed

\* A delivery goes to a channel that held nothing.
LEMMA DeliverFacts ==
  ASSUME TypeInv, SafetyInv, NEW c \in Consumers, BrokerDeliver(c)
  PROVE  /\ NothingHeld(c)
         /\ UNCHANGED <<published, frames, link, errorQueue, taskVars, historyVars>>
         /\ \E d \in Deliveries :
              /\ IsHead(d.msg, c[2]) /\ ready' = ready \ {d.msg}
              /\ outstanding'[c] = {d} /\ inbox'[c] = <<d>>
              /\ \A e \in Consumers \ {c} :
                   outstanding'[e] = outstanding[e] /\ inbox'[e] = inbox[e]
<1>1. PICK m \in ready, t \in Tags :
        /\ IsHead(m, c[2]) /\ ready' = ready \ {m}
        /\ outstanding' = [outstanding EXCEPT ![c] = @ \cup {[tag |-> t, msg |-> m]}]
        /\ inbox' = [inbox EXCEPT ![c] = Append(@, [tag |-> t, msg |-> m])]
  BY DEF BrokerDeliver, Deliver, Subscribed
<1>2. /\ UNCHANGED <<published, frames, link, errorQueue, taskVars, historyVars>>
      /\ Connected(c) /\ Cardinality(outstanding[c]) < 1
  BY DEF BrokerDeliver, Deliver, Prefetch
<1> DEFINE d == [tag |-> t, msg |-> m]
<1>3. d \in Deliveries /\ d.msg = m
  BY DEF Deliveries, TypeInv, TypeOK, BrokerTypeOK
<1>4. NothingHeld(c)
  <2>1. ASSUME OneHeld(c) PROVE FALSE
    <3> PICK e \in Deliveries : outstanding[c] = {e}
      BY <2>1 DEF OneHeld
    <3> QED BY <1>2, FS_Singleton
  <2> QED BY <1>2, <2>1, SafetyByTask DEF Local, ChannelInv
<1>5. /\ outstanding'[c] = {d} /\ inbox'[c] = <<d>>
      /\ \A e \in Consumers \ {c} :
           outstanding'[e] = outstanding[e] /\ inbox'[e] = inbox[e]
  BY <1>1, <1>4, OneElement DEF NothingHeld, TypeInv, TypeOK, BrokerTypeOK
<1> HIDE DEF d
<1> QED BY <1>1, <1>2, <1>3, <1>4, <1>5

\* The broker handles the one frame of a channel: what the channel held is
\* discharged by an ack and requeued by a nack.
LEMMA SettleFacts ==
  ASSUME TypeInv, SafetyInv, NEW c \in Consumers, BrokerAck(c) \/ BrokerNack(c)
  PROVE  /\ inbox[c] = <<>> /\ cur[c] = None
         /\ UNCHANGED <<published, inbox, link, errorQueue, taskVars, historyVars>>
         /\ \E d \in Deliveries :
              /\ outstanding[c] = {d}
              /\ \/ frames[c] = <<AckFrame(d.tag)>> /\ ready' = ready
                 \/ frames[c] = <<NackFrame>> /\ ready' = ready \cup {d.msg}
         /\ outstanding'[c] = {} /\ frames'[c] = <<>>
         /\ \A e \in Consumers \ {c} :
              outstanding'[e] = outstanding[e] /\ frames'[e] = frames[e]
<1>1. /\ frames[c] # <<>>
      /\ frames' = [frames EXCEPT ![c] = Tail(@)]
      /\ outstanding' = [outstanding EXCEPT ![c] = @ \ Covered(c, Head(frames[c]))]
      /\ UNCHANGED <<published, inbox, link, errorQueue, taskVars, historyVars>>
  BY DEF BrokerAck, BrokerNack, ApplyAck, ApplyNack
<1>2. PICK d \in Deliveries :
        outstanding[c] = {d} /\ Covered(c, Head(frames[c])) = {d}
  BY <1>1, FrameFacts
<1>3. Connected(c) /\ inbox[c] = <<>> /\ cur[c] = None /\ Tail(frames[c]) = <<>>
  BY <1>1, FrameFacts
<1>4. /\ outstanding'[c] = {} /\ frames'[c] = <<>>
      /\ \A e \in Consumers \ {c} :
           outstanding'[e] = outstanding[e] /\ frames'[e] = frames[e]
  BY <1>1, <1>2, <1>3 DEF TypeInv, TypeOK, BrokerTypeOK
<1>5. frames[c] \in {<<AckFrame(d.tag)>>, <<NackFrame>>}
  <2>1. OneHeld(c)
    BY <1>2, <1>3, SafetyByTask DEF Local, ChannelInv, NothingHeld
  <2> QED BY <1>1, <1>2, <1>3, <2>1, NotificatorAssumption
          DEF OneHeld, Unpolled, InHand, SettledByFrame
<1>6. CASE BrokerAck(c)
  <2>1. Head(frames[c]).kind = "ack" /\ ready' = ready
    BY <1>6 DEF BrokerAck, ApplyAck
  <2>2. frames[c] = <<AckFrame(d.tag)>>
    BY <1>5, <2>1, OneElement DEF NackFrame
  <2> QED BY <1>1, <1>2, <1>3, <1>4, <2>1, <2>2
<1>7. CASE BrokerNack(c)
  <2>1. Head(frames[c]).kind = "nack" /\ ready' = ready \cup {d.msg}
    BY <1>2, <1>7 DEF BrokerNack, ApplyNack, MsgsOf
  <2>2. frames[c] = <<NackFrame>>
    BY <1>5, <2>1, OneElement DEF AckFrame
  <2> QED BY <1>1, <1>2, <1>3, <1>4, <2>1, <2>2
<1> QED BY <1>6, <1>7

\* Channels that close.
LEMMA CloseFacts ==
  ASSUME NEW I \in SUBSET Instances, CloseChannels(I)
  PROVE  /\ OwnersUnchanged
         /\ \A c \in Consumers :
              IF c[1] \in I THEN outstanding'[c] = {} /\ frames'[c] = <<>>
              ELSE outstanding'[c] = outstanding[c] /\ frames'[c] = frames[c]
         /\ ready' = ready \cup HeldBy(I)
BY CloseChannelsLedger DEF CloseChannels

\* A step inside of a handler.
HandlerStep(c) ==
  \/ AttemptOk(c) \/ AttemptFailed(c) \/ Retry(c) \/ GiveUp(c)
  \/ PublishDone(c) \/ RetryTimerFails(c) \/ Answer(c) \/ HandlerTimeout(c)

\* It leaves the broker's queues and channels and all other tasks alone.
LEMMA HandlerFacts ==
  ASSUME TypeInv, SafetyInv, NEW c \in Consumers, HandlerStep(c)
  PROVE  /\ phase[c] \in Handling /\ cur[c] \in Deliveries /\ cur[c].msg \in Msgs
         /\ cur[c] # None /\ cur[c].msg \in published
         /\ UNCHANGED <<published, ready, outstanding, inbox, frames, link, cur>>
         /\ \A d \in Consumers \ {c} : phase'[d] = phase[d] /\ req'[d] = req[d]
<1>1. phase[c] \in Handling
  BY DEF HandlerStep, AttemptOk, AttemptFailed, Retry, GiveUp, PublishDone,
         RetryTimerFails, Answer, RemoteAccept, RemoteAcceptUnusable,
         RemoteRefuse, ErrorStored, ErrorRefused, HandlerTimeout, Handling
<1>2. cur[c] \in Deliveries /\ cur[c].msg \in Msgs /\ cur[c] # None
  BY <1>1, DeliveryFields, NotificatorAssumption DEF TypeInv, BusyHolds, Busy
<1>3. cur[c].msg \in published
  BY <1>2, SafetyByTask DEF Local, ProvenanceInv
<1>4. UNCHANGED <<published, ready, outstanding, inbox, frames, link, cur>>
  <2>1. \A p, r, n : SetTask(c, p, cur[c], n, r) => cur' = cur
    BY DEF SetTask, TypeInv, TypeOK
  <2> QED BY <2>1
     DEF HandlerStep, brokerVars, Move, AttemptOk, AttemptFailed, Retry, GiveUp,
         PublishDone, RetryTimerFails, Answer, RemoteAccept,
         RemoteAcceptUnusable, RemoteRefuse, ErrorStored, ErrorRefused,
         HandlerTimeout
<1>5. \A d \in Consumers \ {c} : phase'[d] = phase[d] /\ req'[d] = req[d]
  BY DEF HandlerStep, TypeInv, TypeOK, SetTask, Move, AttemptOk,
         AttemptFailed, Retry, GiveUp, PublishDone, RetryTimerFails, Answer,
         RemoteAccept, RemoteAcceptUnusable, RemoteRefuse, ErrorStored,
         ErrorRefused, HandlerTimeout
<1> QED BY <1>1, <1>2, <1>3, <1>4, <1>5

\* It abandons no request but its own, and no fault of another one passes.
LEMMA HandlerStrays ==
  ASSUME TypeInv, SafetyInv, NEW c \in Consumers, HandlerStep(c)
  PROVE  \A m \in Strays' : m \in Strays \/ m = cur[c].msg
<1>1. stray' = stray \/ stray' = WithStrays({c})
  BY DEF HandlerStep, historyVars, AttemptOk, AttemptFailed, Retry, GiveUp,
         PublishDone, RetryTimerFails, Answer, RemoteAccept,
         RemoteAcceptUnusable, RemoteRefuse, ErrorStored, ErrorRefused,
         HandlerTimeout
<1>2. \A m \in Strays' : m \in Strays \/ m \in Abandoned(c)
  BY <1>1, StraysGrow, StraysUnchanged DEF TypeInv, TypeOK
<1> QED BY <1>2 DEF Abandoned

\* Faults are only added; those that allow a repetition hit what it handles.
LEMMA HandlerHits ==
  ASSUME TypeInv, SafetyInv, NEW c \in Consumers, HandlerStep(c)
  PROVE  /\ Disturbed \subseteq Disturbed'
         /\ RemoteAcceptUnusable(c) \/ HandlerTimeout(c) => cur[c].msg \in Disturbed'
<1>1. cur[c].msg \in Msgs
  BY HandlerFacts
<1>2. ASSUME hits' = Hit({cur[c].msg})
      PROVE  Disturbed \subseteq Disturbed' /\ cur[c].msg \in Disturbed'
  <2>1. \A m \in Msgs : hits'[m] > 0 <=> hits[m] > 0 \/ m \in {cur[c].msg}
    BY <1>2, HitType DEF TypeInv, TypeOK
  <2> QED BY <1>1, <2>1 DEF Disturbed
<1>3. hits' = hits => Disturbed' = Disturbed
  BY DEF Disturbed
<1>4. RemoteAcceptUnusable(c) \/ HandlerTimeout(c) => hits' = Hit({cur[c].msg})
  BY DEF RemoteAcceptUnusable, HandlerTimeout
<1>5. hits' = hits \/ hits' = Hit({cur[c].msg})
  BY DEF HandlerStep, historyVars, AttemptOk, AttemptFailed, Retry, GiveUp,
         PublishDone, RetryTimerFails, Answer, RemoteAccept,
         RemoteAcceptUnusable, RemoteRefuse, ErrorStored, ErrorRefused,
         HandlerTimeout
<1> QED BY <1>2, <1>3, <1>4, <1>5

\* Channels that close leave no requests but those of their tasks behind.
LEMMA CloseStrays ==
  ASSUME TypeInv,
         \/ \E i \in Instances : Crash(i) \/ ConnectionLost(i)
         \/ BrokerRestart
  PROVE  \A m \in Strays' : m \in Strays \/ \E c \in Consumers : m \in Abandoned(c)
<1>1. stray' = stray \/ \E i \in Instances : stray' = WithStrays(ChannelsOf({i}))
  BY DEF Crash, ConnectionLost, BrokerRestart
<1>2. \A i \in Instances : ChannelsOf({i}) \subseteq Consumers
  BY DEF ChannelsOf
<1>3. ASSUME NEW i \in Instances, stray' = WithStrays(ChannelsOf({i})), NEW m \in Strays'
      PROVE  m \in Strays \/ \E c \in ChannelsOf({i}) : m \in Abandoned(c)
  BY <1>3, StraysGrow DEF TypeInv, TypeOK
<1> QED BY <1>1, <1>2, <1>3, StraysUnchanged

-----------------------------------------------------------------------------
(* What a task does at the ends of a handling, and what faults do.         *)

\* A delivery is polled.
LEMMA TakeFacts ==
  ASSUME TypeInv, SafetyInv, NEW c \in Consumers,
         TakePush(c) \/ TakeMalformed(c) \/ TakeAndSend(c)
  PROVE  /\ UNCHANGED <<published, ready, outstanding, frames, link, errorQueue,
                        historyVars>>
         /\ cur[c] = None
         /\ \A k \in DOMAIN inbox'[c] : \E l \in DOMAIN inbox[c] : inbox'[c][k] = inbox[c][l]
         /\ \E d \in Deliveries :
              /\ cur'[c] = d /\ \E l \in DOMAIN inbox[c] : inbox[c][l] = d
              /\ \/ phase'[c] = "acking" /\ c[2] = "pushes"
                 \/ phase'[c] = "failed"
                 \/ phase'[c] = "sending" /\ d.msg \notin Malformed
         /\ \A e \in Consumers \ {c} :
              /\ inbox'[e] = inbox[e] /\ cur'[e] = cur[e]
              /\ phase'[e] = phase[e] /\ req'[e] = req[e]
<1>1. PICK d \in Deliveries, p \in {"acking", "failed", "sending"}, n \in {0, 1},
           r \in {"none", "sent"} :
        /\ Poll(c, d) /\ SetTask(c, p, d, n, r)
        /\ p = "acking" => c[2] = "pushes"
        /\ p = "sending" => d.msg \notin Malformed
  BY DEF TakePush, TakeMalformed, TakeAndSend
<1>2. /\ phase[c] = "idle" /\ inbox[c] # <<>> /\ d = Head(inbox[c])
      /\ inbox' = [inbox EXCEPT ![c] = Tail(@)]
      /\ UNCHANGED <<published, ready, outstanding, frames, link, errorQueue,
                     historyVars>>
  BY <1>1 DEF Poll
<1>3. /\ phase'[c] = p /\ cur'[c] = d /\ inbox'[c] = Tail(inbox[c])
      /\ \A e \in Consumers \ {c} :
           /\ inbox'[e] = inbox[e] /\ cur'[e] = cur[e]
           /\ phase'[e] = phase[e] /\ req'[e] = req[e]
  BY <1>1, <1>2 DEF SetTask, TypeInv, TypeOK, BrokerTypeOK
<1>4. cur[c] = None
  BY <1>2, SafetyByTask DEF Local, TaskInv, Busy, Handling
<1>5. inbox[c] \in Seq(Deliveries)
  BY DEF TypeInv, TypeOK, BrokerTypeOK
<1>6. /\ \E l \in DOMAIN inbox[c] : inbox[c][l] = d
      /\ \A k \in DOMAIN inbox'[c] : \E l \in DOMAIN inbox[c] : inbox'[c][k] = inbox[c][l]
  BY <1>2, <1>3, <1>5
<1> QED BY <1>1, <1>2, <1>3, <1>4, <1>6

\* A task settles its delivery, or ends.
LEMMA EndFacts ==
  ASSUME TypeInv, SafetyInv, NEW c \in Consumers,
         Ack(c) \/ Nack(c) \/ TaskEnds(c)
  PROVE  /\ UNCHANGED <<published, ready, outstanding, inbox, link, errorQueue,
                        historyVars>>
         /\ phase'[c] \in {"idle", "ended"} /\ cur'[c] = None
         /\ \A e \in Consumers \ {c} :
              /\ frames'[e] = frames[e] /\ cur'[e] = cur[e]
              /\ phase'[e] = phase[e] /\ req'[e] = req[e]
         /\ \/ outstanding[c] = {} /\ frames'[c] = frames[c]
            \/ \E d \in Deliveries :
                 /\ outstanding[c] = {d} /\ cur[c] = d
                 /\ \/ phase[c] = "acking" /\ frames'[c] = <<AckFrame(d.tag)>>
                    \/ phase[c] = "failed" /\ frames'[c] = <<NackFrame>>
<1>1. PICK p \in {"idle", "ended"} : SetTask(c, p, None, 0, "none")
  BY DEF Ack, Nack, TaskEnds, NextPoll, EndTask
<1>2. UNCHANGED <<published, ready, outstanding, inbox, link, errorQueue,
                  historyVars>>
  BY DEF Ack, Nack, TaskEnds, brokerVars
<1>3. /\ phase'[c] = p /\ cur'[c] = None
      /\ \A e \in Consumers \ {c} :
           cur'[e] = cur[e] /\ phase'[e] = phase[e] /\ req'[e] = req[e]
  BY <1>1 DEF SetTask, TypeInv, TypeOK
<1>4. \A e \in Consumers \ {c} : frames'[e] = frames[e]
  BY DEF Ack, Nack, TaskEnds, SendFrame, brokerVars, TypeInv, TypeOK, BrokerTypeOK
<1>5. CASE ~Connected(c)
  <2>1. outstanding[c] = {}
    BY <1>5, SafetyByTask DEF Local, ChannelInv
  <2>2. frames' = frames
    BY <1>5 DEF Ack, Nack, TaskEnds, SendFrame, brokerVars
  <2> QED BY <1>2, <1>3, <1>4, <2>1, <2>2
<1>6. CASE Connected(c)
  <2>1. (Ack(c) \/ Nack(c)) /\ phase[c] \in Busy
    BY <1>6 DEF Ack, Nack, TaskEnds, Connected, Busy
  <2>2. PICK d \in Deliveries : outstanding[c] = {d} /\ InHand(c, d)
    BY <1>6, <2>1, SafetyByTask
       DEF Local, ChannelInv, TaskInv, NothingHeld, OneHeld, Unpolled, SettledByFrame
  <2>3. PICK f \in {AckFrame(d.tag), NackFrame} :
          /\ frames' = [frames EXCEPT ![c] = Append(@, f)]
          /\ \/ phase[c] = "acking" /\ f = AckFrame(d.tag)
             \/ phase[c] = "failed" /\ f = NackFrame
    BY <1>6, <2>1, <2>2 DEF Ack, Nack, SendFrame, InHand
  <2>4. frames'[c] = <<f>>
    <3>1. frames[c] = <<>>
      BY <2>2 DEF InHand
    <3> QED BY <2>3, <3>1, OneElement DEF TypeInv, TypeOK, BrokerTypeOK
  <2> QED BY <1>2, <1>3, <1>4, <2>2, <2>3, <2>4 DEF InHand
<1> QED BY <1>5, <1>6

\* What is held on a channel that closes is held by its instance.
LEMMA HeldFacts ==
  ASSUME NEW I \in SUBSET Instances, NEW c \in Consumers, c[1] \in I,
         NEW d \in outstanding[c]
  PROVE  d.msg \in HeldBy(I)
BY DEF HeldBy, MsgsOf, ChannelsOf

\* What is held is a notification.
LEMMA HeldInMsgs ==
  ASSUME TypeInv, NEW I \in SUBSET Instances
  PROVE  HeldBy(I) \subseteq Msgs
BY DEF HeldBy, MsgsOf, ChannelsOf, TypeInv, TypeOK, BrokerTypeOK, Deliveries

-----------------------------------------------------------------------------
(* Order.                                                                  *)

\* No rollout: there is one process.
Alone == \A i, j \in Instances : i = j

\* Two channels of a work queue are one channel then.
LEMMA OneChannel ==
  ASSUME Alone, NEW c \in Consumers, NEW e \in Consumers, c[2] = e[2]
  PROVE  c = e
BY DEF Alone, Consumers

SameQueue(k, m) == QueueOf[k] = QueueOf[m]

(***************************************************************************)
(* The inductive invariant behind InOrder: the publishers number the       *)
(* notifications of a queue as they publish them, what is outstanding was  *)
(* the head of its queue and is older than what waits, and what was        *)
(* discharged is older than what the broker still owns.                    *)
(***************************************************************************)
OrderInv ==
  /\ \A m \in published, k \in Msgs : (k < m /\ SameQueue(k, m)) => k \in published
  /\ \A c \in Consumers : \A d \in outstanding[c] :
       \A k \in ready : SameQueue(k, d.msg) => d.msg < k
  /\ \A m \in published : \A k \in published :
       (~Owned(m) /\ Owned(k) /\ SameQueue(k, m)) => m < k

\* Notifications are numbers, and what is owned or outstanding is published.
LEMMA OwnedFacts ==
  ASSUME TypeInv, SafetyInv
  PROVE  /\ published \subseteq Msgs /\ Msgs \subseteq Nat /\ ready \subseteq published
         /\ \A c \in Consumers : \A d \in outstanding[c] :
              /\ d \in Deliveries /\ d.msg \in published /\ QueueOf[d.msg] = c[2]
              /\ d.msg \notin ready
<1>1. published \subseteq Msgs /\ \A c \in Consumers : outstanding[c] \subseteq Deliveries
  BY DEF TypeInv, TypeOK, BrokerTypeOK
<1>2. \A c \in Consumers : \A d \in outstanding[c] :
        d.msg \in published /\ QueueOf[d.msg] = c[2]
  BY <1>1, SafetyByTask DEF Local, ProvenanceInv
<1> QED BY <1>1, <1>2, SafetyByTask, BrokerAssumption DEF OwnershipInv

\* A step that moves nothing in the broker keeps the order.
LEMMA OrderFrame ==
  ASSUME OrderInv, UNCHANGED <<published, ready, outstanding>>
  PROVE  OrderInv'
BY DEF OrderInv, Owned, SameQueue

\* A new notification is the youngest of its queue.
LEMMA PublishOrder ==
  ASSUME TypeInv, SafetyInv, OrderInv, NEW m \in Msgs, Publish(m)
  PROVE  OrderInv'
<1>1. /\ m \notin published /\ published' = published \cup {m}
      /\ ready' = ready \cup {m} /\ outstanding' = outstanding
      /\ \A k \in Msgs : (k < m /\ SameQueue(k, m)) => k \in published
  BY DEF Publish, Enqueue, SameQueue
<1>2. /\ published \subseteq Msgs /\ Msgs \subseteq Nat
      /\ \A c \in Consumers : \A d \in outstanding[c] : d.msg \in published
  BY OwnedFacts
<1>3. \A k \in published : SameQueue(m, k) => k < m
  <2> SUFFICES ASSUME NEW k \in published, SameQueue(m, k), ~(k < m) PROVE FALSE
    OBVIOUS
  <2>1. m < k
    BY <1>1, <1>2
  <2> QED BY <1>1, <2>1 DEF OrderInv
<1>4. \A k : Owned(k)' <=> Owned(k) \/ k = m
  BY <1>1 DEF Owned
<1>5. \A a \in published', k \in Msgs : (k < a /\ SameQueue(k, a)) => k \in published'
  BY <1>1 DEF OrderInv
<1>6. \A c \in Consumers : \A d \in outstanding'[c] :
        \A k \in ready' : SameQueue(k, d.msg) => d.msg < k
  BY <1>1, <1>2, <1>3 DEF OrderInv
<1>7. \A a \in published' : \A k \in published' :
        (~Owned(a)' /\ Owned(k)' /\ SameQueue(k, a)) => a < k
  BY <1>1, <1>3, <1>4 DEF OrderInv
<1> QED BY <1>5, <1>6, <1>7 DEF OrderInv, SameQueue

\* What is delivered is the head of its queue.
LEMMA DeliverOrder ==
  ASSUME TypeInv, SafetyInv, OrderInv, NEW c \in Consumers, BrokerDeliver(c)
  PROVE  OrderInv'
<1>1. PICK d \in Deliveries :
        /\ IsHead(d.msg, c[2]) /\ ready' = ready \ {d.msg}
        /\ outstanding'[c] = {d} /\ outstanding[c] = {}
        /\ \A e \in Consumers \ {c} : outstanding'[e] = outstanding[e]
  BY DeliverFacts DEF NothingHeld
<1>2. published' = published
  BY DeliverFacts
<1>3. /\ d.msg \in ready /\ QueueOf[d.msg] = c[2]
      /\ \A k \in ready : SameQueue(k, d.msg) => d.msg <= k
  BY <1>1 DEF IsHead, SameQueue
<1>4. \A k : Owned(k)' <=> Owned(k)
  BY <1>1, <1>3 DEF Owned
<1>5. \A e \in Consumers : \A x \in outstanding'[e] :
        \A k \in ready' : SameQueue(k, x.msg) => x.msg < k
  <2> SUFFICES ASSUME NEW e \in Consumers, NEW x \in outstanding'[e], NEW k \in ready',
                      SameQueue(k, x.msg)
               PROVE  x.msg < k
    OBVIOUS
  <2>1. CASE e = c
    <3>1. x = d /\ k \in ready /\ k # d.msg /\ d.msg <= k
      BY <1>1, <1>3, <2>1
    <3> QED BY <1>3, <3>1, OwnedFacts
  <2>2. CASE e # c
    BY <1>1, <2>2 DEF OrderInv
  <2> QED BY <2>1, <2>2
<1> QED BY <1>2, <1>4, <1>5 DEF OrderInv, SameQueue

\* What is acked is older than all that is left of its queue; what is nacked
\* takes its place at the head again.
LEMMA SettleOrder ==
  ASSUME TypeInv, SafetyInv, OrderInv, Alone, NEW c \in Consumers,
         BrokerAck(c) \/ BrokerNack(c)
  PROVE  OrderInv'
<1>1. PICK d \in Deliveries :
        /\ outstanding[c] = {d} /\ (ready' = ready \/ ready' = ready \cup {d.msg})
        /\ outstanding'[c] = {} /\ published' = published
        /\ \A e \in Consumers \ {c} : outstanding'[e] = outstanding[e]
  BY SettleFacts
<1>2. /\ d.msg \in published /\ QueueOf[d.msg] = c[2]
      /\ \A e \in Consumers : \A x \in outstanding[e] : QueueOf[x.msg] = e[2]
  BY <1>1, OwnedFacts
<1>3. \A e \in Consumers : \A x \in outstanding'[e] : ~SameQueue(d.msg, x.msg)
  <2> SUFFICES ASSUME NEW e \in Consumers, NEW x \in outstanding'[e],
                      SameQueue(d.msg, x.msg)
               PROVE  FALSE
    OBVIOUS
  <2>1. e # c /\ x \in outstanding[e]
    BY <1>1
  <2>2. e[2] = c[2]
    BY <1>2, <2>1 DEF SameQueue
  <2> QED BY <2>1, <2>2, OneChannel
<1>4. \A k : Owned(k)' => Owned(k)
  BY <1>1 DEF Owned
<1>5. \A k : Owned(k) => Owned(k)' \/ (k = d.msg /\ ready' = ready)
  BY <1>1 DEF Owned
<1>6. \A k : (Owned(k)' /\ SameQueue(k, d.msg) /\ ready' = ready) => d.msg < k
  <2> SUFFICES ASSUME NEW k, Owned(k)', SameQueue(k, d.msg), ready' = ready
               PROVE  d.msg < k
    OBVIOUS
  <2>1. k \in ready
    BY <1>3 DEF Owned, SameQueue
  <2> QED BY <1>1, <2>1 DEF OrderInv
<1>7. \A e \in Consumers : \A x \in outstanding'[e] :
        \A k \in ready' : SameQueue(k, x.msg) => x.msg < k
  <2> SUFFICES ASSUME NEW e \in Consumers, NEW x \in outstanding'[e], NEW k \in ready',
                      SameQueue(k, x.msg)
               PROVE  x.msg < k
    OBVIOUS
  <2>1. e # c /\ x \in outstanding[e]
    BY <1>1
  <2>2. k \in ready
    BY <1>1, <1>3
  <2> QED BY <2>1, <2>2 DEF OrderInv
<1>8. \A a \in published' : \A k \in published' :
        (~Owned(a)' /\ Owned(k)' /\ SameQueue(k, a)) => a < k
  BY <1>1, <1>4, <1>5, <1>6 DEF OrderInv
<1> QED BY <1>1, <1>7, <1>8 DEF OrderInv, SameQueue

\* With its only instance all channels close.
LEMMA CloseOrder ==
  ASSUME OrderInv, Alone,
         \/ \E i \in Instances : Crash(i) \/ ConnectionLost(i)
         \/ BrokerRestart
  PROVE  OrderInv'
<1>1. PICK I \in SUBSET Instances :
        /\ CloseChannels(I) /\ published' = published
        /\ \A i \in Instances : i \in I
  <2>1. ASSUME NEW i \in Instances, Crash(i) \/ ConnectionLost(i)
        PROVE  CloseChannels({i}) /\ published' = published /\ \A j \in Instances : j \in {i}
    BY <2>1 DEF Crash, ConnectionLost, Alone
  <2>2. BrokerRestart => CloseChannels(Instances) /\ published' = published
    BY DEF BrokerRestart
  <2> QED BY <2>1, <2>2
<1>2. OwnersUnchanged
  BY <1>1, CloseFacts
<1>3. \A c \in Consumers : outstanding'[c] = {}
  <2>1. \A c \in Consumers : c[1] \in I
    BY <1>1 DEF Consumers
  <2> QED BY <1>1, <2>1, CloseFacts
<1> QED BY <1>1, <1>2, <1>3 DEF OrderInv, OwnersUnchanged, SameQueue

\* Every step keeps the order.
LEMMA OrderStep ==
  ASSUME TypeInv, SafetyInv, OrderInv, Alone, [Next]_vars
  PROVE  OrderInv'
<1>1. CASE \/ UNCHANGED vars
           \/ \E m \in Msgs : StrayAccept(m)
           \/ \E i \in Instances, m \in Msgs : LateStored(i, m)
           \/ \E i \in Instances : Start(i)
           \/ \E c \in Consumers : \/ TakePush(c) \/ TakeMalformed(c) \/ TakeAndSend(c)
                                   \/ Ack(c) \/ Nack(c) \/ TaskEnds(c)
  <2>1. UNCHANGED <<published, ready, outstanding>>
    BY <1>1 DEF vars, brokerVars, StrayAccept, LateStored, Start, TakePush,
       TakeMalformed, TakeAndSend, Poll, Ack, Nack, TaskEnds
  <2> QED BY <2>1, OrderFrame
<1>2. CASE \E c \in Consumers : HandlerStep(c)
  <2>1. UNCHANGED <<published, ready, outstanding>>
    BY <1>2, HandlerFacts
  <2> QED BY <2>1, OrderFrame
<1> QED BY <1>1, <1>2, PublishOrder, DeliverOrder, SettleOrder, CloseOrder
        DEF Next, BrokerStep, TaskStep, TaskFault, HandlerStep

(***************************************************************************)
(* With a single instance the notifications of a queue are discharged in   *)
(* the order of their publication, for any number of them and through any  *)
(* faults (lib.rs:144: a nack requeues, and to the old place).             *)
(***************************************************************************)
THEOREM AlwaysInOrder == ASSUME Alone PROVE Spec => []InOrder
<1>1. Init => OrderInv
  BY DEF Init, BrokerInit, OrderInv, Owned
<1>2. TypeInv /\ SafetyInv /\ OrderInv /\ [Next]_vars => OrderInv'
  BY OrderStep
<1>3. ASSUME OrderInv, TypeInv, SafetyInv PROVE InOrder
  <2> SUFFICES ASSUME NEW m \in Discharged, NEW k \in published, k < m,
                      SameQueue(k, m), Owned(k)
               PROVE  FALSE
    BY PendingIsOwned DEF InOrder, Discharged, SameQueue
  <2>1. m \in published /\ ~Owned(m)
    BY PendingIsOwned DEF Discharged
  <2>2. m < k /\ m \in Nat /\ k \in Nat
    BY <1>3, <2>1, OwnedFacts DEF OrderInv
  <2> QED BY <2>2
<1> QED BY <1>1, <1>2, <1>3, TypeInvariant, SafetyInvariant, PTL DEF Spec

-----------------------------------------------------------------------------
(* Malformed notifications.                                                *)

\* m is p or was published to its queue after it.
Behind(p, m) == p <= m /\ SameQueue(m, p)

\* The remote side has not seen m, and never will through what is on its way.
Untouched(m) ==
  /\ accepts[m] = 0 /\ m \notin errorQueue /\ m \notin Strays
  /\ \A i \in Instances : <<i, m>> \notin late

\* d is somewhere on channel c or with its task.
Present(c, d) ==
  d \in outstanding[c] \/ cur[c] = d \/ \E k \in DOMAIN inbox[c] : inbox[c][k] = d

\* On channel c: nothing behind p, and no success for p.
Stuck(c, p) ==
  /\ \A d \in Deliveries : Present(c, d) /\ Behind(p, d.msg) => d.msg = p
  /\ (cur[c] # None /\ cur[c].msg = p) => phase[c] = "failed"
  /\ \A d \in outstanding[c] : d.msg = p => frames[c] # <<AckFrame(d.tag)>>

Poisons == {p \in Malformed : ~IsPush(p)}

(***************************************************************************)
(* The inductive invariant behind PoisonBlocksQueue: the broker owns the   *)
(* malformed notification, whoever has it fails, and nothing behind it is  *)
(* anywhere but in its queue.                                              *)
(***************************************************************************)
PoisonInv ==
  \A p \in Poisons :
    /\ p \in published => Owned(p)
    /\ \A m \in Msgs : Behind(p, m) => Untouched(m)
    /\ \A c \in Consumers : Stuck(c, p)

\* A channel on which nothing appears, and whose task and frames do not change.
LEMMA StuckFrame ==
  ASSUME NEW c \in Consumers, NEW p, Stuck(c, p),
         outstanding'[c] \subseteq outstanding[c],
         \A k \in DOMAIN inbox'[c] : \E l \in DOMAIN inbox[c] : inbox'[c][k] = inbox[c][l],
         \/ UNCHANGED <<cur[c], phase[c]>>
         \/ cur'[c] = None /\ None \notin Deliveries,
         frames'[c] = frames[c] \/ outstanding'[c] = {}
  PROVE  Stuck(c, p)'
<1>1. \A d \in Deliveries : Present(c, d)' => Present(c, d)
  BY DEF Present
<1>2. (\A d \in Deliveries : Present(c, d) /\ Behind(p, d.msg) => d.msg = p)'
  BY <1>1 DEF Stuck, Behind, SameQueue
<1>3. (cur'[c] # None /\ cur'[c].msg = p) => phase'[c] = "failed"
  BY DEF Stuck
<1>4. \A d \in outstanding'[c] : d.msg = p => frames'[c] # <<AckFrame(d.tag)>>
  BY DEF Stuck, AckFrame
<1> QED BY <1>2, <1>3, <1>4 DEF Stuck

\* A malformed notification that is no push, and what has to be shown of it.
LEMMA PoisonFacts ==
  ASSUME PoisonInv, NEW p \in Poisons
  PROVE  /\ p \in Msgs /\ p \in Malformed /\ QueueOf[p] # "pushes" /\ Behind(p, p)
         /\ p \in published => Owned(p)
         /\ \A m \in Msgs : Behind(p, m) => Untouched(m)
         /\ \A c \in Consumers : Stuck(c, p)
<1>1. p \in Msgs /\ p \in Malformed /\ QueueOf[p] # "pushes"
  BY NotificatorAssumption DEF Poisons, IsPush
<1>2. Behind(p, p)
  BY <1>1, BrokerAssumption DEF Behind, SameQueue
<1> QED BY <1>1, <1>2 DEF PoisonInv

\* A step that changes no channel and no task, and lets the remote side see
\* nothing that is behind.
LEMMA PoisonFrame ==
  ASSUME PoisonInv,
         UNCHANGED <<outstanding, inbox, frames, cur, phase>>,
         \A p \in Poisons : (p \in published' => Owned(p)'),
         \A m \in Msgs : Untouched(m) => Untouched(m)'
  PROVE  PoisonInv'
<1>1. ASSUME NEW p \in Poisons PROVE \A c \in Consumers : Stuck(c, p)'
  BY <1>1, PoisonFacts DEF Stuck, Present, Behind, SameQueue
<1>2. ASSUME NEW p \in Poisons, NEW m \in Msgs, Behind(p, m)' PROVE Untouched(m)'
  <2>1. Behind(p, m)
    BY <1>2 DEF Behind, SameQueue
  <2> QED BY <1>2, <2>1, PoisonFacts
<1>3. Poisons' = Poisons
  BY DEF Poisons, IsPush
<1> QED BY <1>1, <1>2, <1>3 DEF PoisonInv

\* The steps of one task and its channel.
LEMMA PoisonOfStep ==
  ASSUME PoisonInv, NEW c \in Consumers,
         \A p \in Poisons : Stuck(c, p)',
         \A e \in Consumers \ {c} :
           UNCHANGED <<outstanding[e], inbox[e], frames[e], cur[e], phase[e]>>,
         \A p \in Poisons : (p \in published' => Owned(p)'),
         \A m \in Msgs : (\E p \in Poisons : Behind(p, m)) => Untouched(m)'
  PROVE  PoisonInv'
<1>1. ASSUME NEW p \in Poisons, NEW e \in Consumers PROVE Stuck(e, p)'
  <2>1. CASE e = c
    BY <2>1
  <2>2. CASE e # c
    BY <2>2, PoisonFacts, StuckFrame
  <2> QED BY <2>1, <2>2
<1>2. ASSUME NEW p \in Poisons, NEW m \in Msgs, Behind(p, m)' PROVE Untouched(m)'
  <2>1. Behind(p, m)
    BY <1>2 DEF Behind, SameQueue
  <2> QED BY <2>1
<1>3. Poisons' = Poisons
  BY DEF Poisons, IsPush
<1> QED BY <1>1, <1>2, <1>3 DEF PoisonInv

\* Publishing touches nothing.
LEMMA PublishPoison ==
  ASSUME PoisonInv, NEW m \in Msgs, Publish(m)
  PROVE  PoisonInv'
<1>1. /\ published' = published \cup {m} /\ ready' = ready \cup {m}
      /\ UNCHANGED <<outstanding, inbox, frames, cur, phase, accepts, errorQueue, late>>
      /\ Strays' = Strays
  BY HistoryUnchanged DEF Publish, Enqueue, taskVars
<1>2. \A p \in Poisons : (p \in published' => Owned(p)')
  BY <1>1, PoisonFacts DEF Owned
<1>3. \A k \in Msgs : Untouched(k) => Untouched(k)'
  BY <1>1 DEF Untouched
<1> QED BY <1>1, <1>2, <1>3, PoisonFrame

\* Only the malformed notification itself can be the head of its queue.
LEMMA DeliverPoison ==
  ASSUME TypeInv, SafetyInv, OrderInv, PoisonInv, Alone, NEW c \in Consumers,
         BrokerDeliver(c)
  PROVE  PoisonInv'
<1>1. PICK d \in Deliveries :
        /\ IsHead(d.msg, c[2]) /\ ready' = ready \ {d.msg}
        /\ outstanding'[c] = {d} /\ inbox'[c] = <<d>>
        /\ \A e \in Consumers \ {c} :
             outstanding'[e] = outstanding[e] /\ inbox'[e] = inbox[e]
  BY DeliverFacts
<1>2. /\ NothingHeld(c)
      /\ UNCHANGED <<published, frames, cur, phase, accepts, errorQueue, late>>
      /\ Strays' = Strays
  BY DeliverFacts, HistoryUnchanged DEF taskVars
<1>3. ASSUME NEW p \in Poisons, Behind(p, d.msg) PROVE d.msg = p
  <2>1. d.msg \in ready /\ QueueOf[p] = c[2] /\ p <= d.msg
    BY <1>1, <1>3 DEF IsHead, Behind, SameQueue
  <2>2. d.msg \in published /\ d.msg \in Nat /\ p \in Nat /\ p \in Msgs
    BY <2>1, OwnedFacts, PoisonFacts
  <2>3. p \in published
    BY <1>3, <2>1, <2>2 DEF OrderInv, Behind, SameQueue
  <2>4. CASE p \in ready
    BY <1>1, <2>1, <2>2, <2>4 DEF IsHead
  <2>5. ASSUME NEW e \in Consumers, NEW x \in outstanding[e], x.msg = p PROVE FALSE
    <3>1. e[2] = c[2]
      BY <2>1, <2>5, OwnedFacts
    <3>2. e = c
      BY <3>1, OneChannel
    <3> QED BY <1>2, <2>5, <3>2 DEF NothingHeld
  <2> QED BY <2>3, <2>4, <2>5, PoisonFacts DEF Owned
<1>4. ASSUME NEW p \in Poisons PROVE Stuck(c, p)'
  <2>1. cur'[c] = None /\ frames'[c] = <<>>
    BY <1>2 DEF NothingHeld
  <2>2. \A x \in Deliveries : Present(c, x)' => x = d
    BY <1>1, <2>1, OneElement, NotificatorAssumption DEF Present
  <2>3. <<>> # <<AckFrame(d.tag)>>
    BY OneElement
  <2> QED BY <1>1, <1>3, <1>4, <2>1, <2>2, <2>3 DEF Stuck, Behind, SameQueue
<1>5. \A p \in Poisons : (p \in published' => Owned(p)')
  BY <1>1, <1>2, PoisonFacts DEF Owned, NothingHeld
<1>6. \A m \in Msgs : (\E p \in Poisons : Behind(p, m)) => Untouched(m)'
  BY <1>2, PoisonFacts DEF Untouched
<1> QED BY <1>1, <1>2, <1>4, <1>5, <1>6, PoisonOfStep

\* An ack is not for a malformed notification.
LEMMA SettlePoison ==
  ASSUME TypeInv, SafetyInv, PoisonInv, NEW c \in Consumers,
         BrokerAck(c) \/ BrokerNack(c)
  PROVE  PoisonInv'
<1>1. PICK d \in Deliveries :
        /\ outstanding[c] = {d}
        /\ \/ frames[c] = <<AckFrame(d.tag)>> /\ ready' = ready
           \/ frames[c] = <<NackFrame>> /\ ready' = ready \cup {d.msg}
  BY SettleFacts
<1>2. /\ outstanding'[c] = {}
      /\ UNCHANGED <<published, inbox, cur, phase, accepts, errorQueue, late>>
      /\ Strays' = Strays
      /\ \A e \in Consumers \ {c} :
           outstanding'[e] = outstanding[e] /\ frames'[e] = frames[e]
  BY SettleFacts, HistoryUnchanged DEF taskVars
<1>3. \A p \in Poisons : Stuck(c, p)'
  BY <1>2, PoisonFacts, StuckFrame
<1>4. ASSUME NEW p \in Poisons, p \in published' PROVE Owned(p)'
  <2>1. Owned(p)
    BY <1>2, <1>4, PoisonFacts
  <2>2. d.msg = p => frames[c] # <<AckFrame(d.tag)>>
    BY <1>1, PoisonFacts DEF Stuck
  <2> QED BY <1>1, <1>2, <2>1, <2>2 DEF Owned
<1>5. \A m \in Msgs : (\E p \in Poisons : Behind(p, m)) => Untouched(m)'
  BY <1>2, PoisonFacts DEF Untouched
<1> QED BY <1>2, <1>3, <1>4, <1>5, PoisonOfStep

\* The task that polls a malformed notification fails at once.
LEMMA TakePoison ==
  ASSUME TypeInv, SafetyInv, PoisonInv, NEW c \in Consumers,
         TakePush(c) \/ TakeMalformed(c) \/ TakeAndSend(c)
  PROVE  PoisonInv'
<1>1. /\ UNCHANGED <<published, ready, outstanding, frames, accepts, errorQueue, late>>
      /\ Strays' = Strays
      /\ \A k \in DOMAIN inbox'[c] : \E l \in DOMAIN inbox[c] : inbox'[c][k] = inbox[c][l]
      /\ \A e \in Consumers \ {c} :
           inbox'[e] = inbox[e] /\ cur'[e] = cur[e] /\ phase'[e] = phase[e]
  BY TakeFacts, HistoryUnchanged
<1>2. PICK d \in Deliveries :
        /\ cur'[c] = d /\ \E l \in DOMAIN inbox[c] : inbox[c][l] = d
        /\ \/ phase'[c] = "acking" /\ c[2] = "pushes"
           \/ phase'[c] = "failed"
           \/ phase'[c] = "sending" /\ d.msg \notin Malformed
  BY TakeFacts
<1>3. QueueOf[d.msg] = c[2]
  BY <1>2, SafetyByTask DEF Local, ProvenanceInv
<1>4. ASSUME NEW p \in Poisons PROVE Stuck(c, p)'
  <2>1. \A x \in Deliveries : Present(c, x)' => Present(c, x)
    BY <1>1, <1>2 DEF Present
  <2>2. d.msg = p => phase'[c] = "failed"
    BY <1>2, <1>3, PoisonFacts
  <2>3. Stuck(c, p)
    BY PoisonFacts
  <2> QED BY <1>1, <1>2, <2>1, <2>2, <2>3 DEF Stuck, Behind, SameQueue
<1>5. \A p \in Poisons : (p \in published' => Owned(p)')
  BY <1>1, PoisonFacts DEF Owned
<1>6. \A m \in Msgs : (\E p \in Poisons : Behind(p, m)) => Untouched(m)'
  BY <1>1, PoisonFacts DEF Untouched
<1> QED BY <1>1, <1>4, <1>5, <1>6, PoisonOfStep

\* What a handler works on is not behind a malformed notification.
LEMMA HandlerPoison ==
  ASSUME TypeInv, SafetyInv, PoisonInv, NEW c \in Consumers, HandlerStep(c)
  PROVE  PoisonInv'
<1> DEFINE held == cur[c].msg
<1>1. /\ phase[c] \in Handling /\ cur[c] \in Deliveries /\ held \in Msgs /\ cur[c] # None
      /\ UNCHANGED <<published, ready, outstanding, inbox, frames, cur>>
      /\ \A e \in Consumers \ {c} : phase'[e] = phase[e]
  BY HandlerFacts
<1>2. ASSUME NEW p \in Poisons PROVE ~Behind(p, held) /\ held # p
  <2>1. Stuck(c, p) /\ Behind(p, p)
    BY PoisonFacts
  <2>2. held # p
    BY <1>1, <2>1 DEF Stuck, Handling
  <2>3. Present(c, cur[c])
    BY DEF Present
  <2> QED BY <1>1, <2>1, <2>2, <2>3 DEF Stuck
<1> HIDE DEF held
<1>3. ASSUME NEW p \in Poisons PROVE Stuck(c, p)'
  <2>1. Stuck(c, p)
    BY PoisonFacts
  <2>2. \A x \in Deliveries : Present(c, x)' => Present(c, x)
    BY <1>1 DEF Present
  <2> QED BY <1>1, <1>2, <2>1, <2>2 DEF Stuck, Behind, SameQueue, held
<1>4. \A p \in Poisons : (p \in published' => Owned(p)')
  BY <1>1, PoisonFacts DEF Owned
<1>5. ASSUME NEW m \in Msgs, m # held, Untouched(m) PROVE Untouched(m)'
  <2>1. accepts'[m] = accepts[m]
    BY <1>1, <1>5
       DEF held, HandlerStep, TypeInv, TypeOK, historyVars, Counted, AttemptOk,
           AttemptFailed, Retry, GiveUp, PublishDone, RetryTimerFails, Answer,
           RemoteAccept, RemoteAcceptUnusable, RemoteRefuse, ErrorStored,
           ErrorRefused, HandlerTimeout
  <2>2. errorQueue' \subseteq errorQueue \cup {held}
    BY DEF held, HandlerStep, brokerVars, historyVars, AttemptOk,
           AttemptFailed, Retry, GiveUp, PublishDone, RetryTimerFails, Answer,
           RemoteAccept, RemoteAcceptUnusable, RemoteRefuse, ErrorStored,
           ErrorRefused, HandlerTimeout
  <2>3. \A k \in Strays' : k \in Strays \/ k = held
    BY HandlerStrays DEF held
  <2>4. late' \subseteq late \cup {<<c[1], held>>}
    BY DEF held, HandlerStep, historyVars, AttemptOk,
           AttemptFailed, Retry, GiveUp, PublishDone, RetryTimerFails, Answer,
           RemoteAccept, RemoteAcceptUnusable, RemoteRefuse, ErrorStored,
           ErrorRefused, HandlerTimeout
  <2> QED BY <1>5, <2>1, <2>2, <2>3, <2>4 DEF Untouched
<1>6. \A m \in Msgs : (\E p \in Poisons : Behind(p, m)) => Untouched(m)'
  BY <1>2, <1>5, PoisonFacts
<1> QED BY <1>1, <1>3, <1>4, <1>6, PoisonOfStep

\* A task that has a malformed notification nacks it.
LEMMA EndPoison ==
  ASSUME TypeInv, SafetyInv, PoisonInv, NEW c \in Consumers,
         Ack(c) \/ Nack(c) \/ TaskEnds(c)
  PROVE  PoisonInv'
<1>1. /\ UNCHANGED <<published, ready, outstanding, inbox, accepts, errorQueue, late>>
      /\ Strays' = Strays
      /\ cur'[c] = None
      /\ \A e \in Consumers \ {c} :
           frames'[e] = frames[e] /\ cur'[e] = cur[e] /\ phase'[e] = phase[e]
  BY EndFacts, HistoryUnchanged
<1>2. ASSUME NEW p \in Poisons PROVE Stuck(c, p)'
  <2>1. Stuck(c, p)
    BY PoisonFacts
  <2>2. \A x \in Deliveries : Present(c, x)' => Present(c, x)
    BY <1>1, NotificatorAssumption DEF Present
  <2>3. \A x \in outstanding[c] : x.msg = p => frames'[c] # <<AckFrame(x.tag)>>
    <3>1. CASE outstanding[c] = {}
      BY <3>1
    <3>2. ASSUME NEW d \in Deliveries, outstanding[c] = {d}, cur[c] = d,
                 \/ phase[c] = "acking" /\ frames'[c] = <<AckFrame(d.tag)>>
                 \/ phase[c] = "failed" /\ frames'[c] = <<NackFrame>>,
                 d.msg = p
          PROVE  frames'[c] # <<AckFrame(d.tag)>>
      <4>1. phase[c] = "failed"
        BY <2>1, <3>2, NotificatorAssumption DEF Stuck
      <4>2. NackFrame # AckFrame(d.tag)
        BY DEF NackFrame, AckFrame
      <4> QED BY <3>2, <4>1, <4>2
    <3> QED BY <3>1, <3>2, EndFacts
  <2> QED BY <1>1, <2>1, <2>2, <2>3 DEF Stuck, Behind, SameQueue
<1>3. \A p \in Poisons : (p \in published' => Owned(p)')
  BY <1>1, PoisonFacts DEF Owned
<1>4. \A m \in Msgs : (\E p \in Poisons : Behind(p, m)) => Untouched(m)'
  BY <1>1, PoisonFacts DEF Untouched
<1> QED BY <1>1, <1>2, <1>3, <1>4, PoisonOfStep

\* Late arrivals and a new process: nothing behind is on its way.
LEMMA OtherPoison ==
  ASSUME TypeInv, SafetyInv, PoisonInv,
         \/ UNCHANGED vars
         \/ \E m \in Msgs : StrayAccept(m)
         \/ \E i \in Instances, m \in Msgs : LateStored(i, m)
  PROVE  PoisonInv'
<1>1. UNCHANGED <<published, ready, outstanding, inbox, frames, cur, phase>>
  BY DEF vars, brokerVars, taskVars, StrayAccept, LateStored
<1>2. \A p \in Poisons : (p \in published' => Owned(p)')
  BY <1>1, PoisonFacts DEF Owned
<1>3. ASSUME NEW m \in Msgs, Untouched(m) PROVE Untouched(m)'
  BY <1>3 DEF Untouched, Strays, Counted, TypeInv, TypeOK, vars, brokerVars, historyVars,
     StrayAccept, LateStored
<1> QED BY <1>1, <1>2, <1>3, PoisonFrame

\* A process that starts has nothing in its hands.
LEMMA StartPoison ==
  ASSUME TypeInv, SafetyInv, PoisonInv, NEW i \in Instances, Start(i)
  PROVE  PoisonInv'
<1>1. /\ UNCHANGED <<published, ready, outstanding, inbox, frames, cur, accepts,
                     errorQueue, late>>
      /\ Strays' = Strays
      /\ link[i] = "stopped"
      /\ \A c \in Consumers : c[1] # i => phase'[c] = phase[c]
  BY HistoryUnchanged DEF Start
<1>2. \A c \in Consumers : c[1] = i => cur[c] = None
  BY <1>1, SafetyByTask DEF Local, ChannelInv
<1>3. ASSUME NEW p \in Poisons, NEW c \in Consumers PROVE Stuck(c, p)'
  <2>1. Stuck(c, p)
    BY PoisonFacts
  <2> QED BY <1>1, <1>2, <2>1, NotificatorAssumption, StuckFrame
<1>4. \A p \in Poisons : (p \in published' => Owned(p)')
  BY <1>1, PoisonFacts DEF Owned
<1>5. \A p \in Poisons, m \in Msgs : Behind(p, m)' => Untouched(m)'
  BY <1>1, PoisonFacts DEF Untouched, Behind, SameQueue
<1>6. Poisons' = Poisons
  BY DEF Poisons, IsPush
<1> QED BY <1>3, <1>4, <1>5, <1>6 DEF PoisonInv

\* Channels that close leave the malformed notification with the broker.
LEMMA ClosePoison ==
  ASSUME TypeInv, SafetyInv, PoisonInv,
         \/ \E i \in Instances : Crash(i) \/ ConnectionLost(i)
         \/ BrokerRestart
  PROVE  PoisonInv'
<1>1. PICK I \in SUBSET Instances : CloseChannels(I) /\ published' = published
  <2>1. ASSUME NEW i \in Instances, Crash(i) \/ ConnectionLost(i)
        PROVE  CloseChannels({i}) /\ published' = published
    BY <2>1 DEF Crash, ConnectionLost
  <2>2. BrokerRestart => CloseChannels(Instances) /\ published' = published
    BY DEF BrokerRestart
  <2> QED BY <2>1, <2>2
<1>2. /\ accepts' = accepts /\ errorQueue' \subseteq errorQueue /\ late' \subseteq late
      /\ \A c \in Consumers :
           \/ UNCHANGED <<inbox[c], cur[c], phase[c]>>
           \/ inbox'[c] = <<>> /\ cur'[c] = None
  BY DEF Crash, ConnectionLost, BrokerRestart, taskVars
<1>3. \A c \in Consumers :
        outstanding'[c] = {} \/ (outstanding'[c] = outstanding[c] /\ frames'[c] = frames[c])
  BY <1>1, CloseFacts
<1>4. ASSUME NEW p \in Poisons, NEW c \in Consumers PROVE Stuck(c, p)'
  <2>1. Stuck(c, p)
    BY PoisonFacts
  <2> QED BY <1>2, <1>3, <2>1, NotificatorAssumption, StuckFrame
<1>5. \A p \in Poisons : (p \in published' => Owned(p)')
  <2>1. OwnersUnchanged
    BY <1>1, CloseFacts
  <2> QED BY <1>1, <2>1, PoisonFacts DEF OwnersUnchanged
<1>6. ASSUME NEW p \in Poisons, NEW c \in Consumers, Behind(p, cur[c].msg)
      PROVE  Abandoned(c) = {}
  <2>1. Stuck(c, p)
    BY PoisonFacts
  <2>2. SUFFICES ASSUME phase[c] = "sending" PROVE FALSE
    BY DEF Abandoned
  <2>3. cur[c] \in Deliveries /\ cur[c] # None
    BY <2>2, NotificatorAssumption DEF TypeInv, BusyHolds, Busy, Handling
  <2> QED BY <1>6, <2>1, <2>2, <2>3 DEF Stuck, Present
<1>7. ASSUME NEW p \in Poisons, NEW m \in Msgs, Behind(p, m), m \in Strays'
      PROVE  m \in Strays
  <2>1. m \in Strays \/ \E c \in Consumers : m \in Abandoned(c)
    BY <1>7, CloseStrays
  <2>2. \A c \in Consumers : m \notin Abandoned(c)
    BY <1>6, <1>7 DEF Abandoned
  <2> QED BY <2>1, <2>2
<1>8. \A p \in Poisons, m \in Msgs : Behind(p, m)' => Untouched(m)'
  BY <1>2, <1>7, PoisonFacts DEF Untouched, Behind, SameQueue
<1>9. Poisons' = Poisons
  BY DEF Poisons, IsPush
<1> QED BY <1>4, <1>5, <1>8, <1>9 DEF PoisonInv

\* Every step keeps a malformed notification where it is.
LEMMA PoisonStep ==
  ASSUME TypeInv, SafetyInv, OrderInv, PoisonInv, Alone, [Next]_vars
  PROVE  PoisonInv'
BY PublishPoison, DeliverPoison, SettlePoison, TakePoison, HandlerPoison, EndPoison,
   OtherPoison, StartPoison, ClosePoison
   DEF Next, BrokerStep, TaskStep, TaskFault, HandlerStep

(***************************************************************************)
(* With a single instance a malformed notification holds up its queue for  *)
(* ever, for any number of notifications and through any faults            *)
(* (services/rabbit.rs:153, lib.rs:144).                                   *)
(***************************************************************************)
THEOREM PoisonAlwaysBlocks == ASSUME Alone PROVE Spec => []PoisonBlocksQueue
<1>1. Init => OrderInv /\ PoisonInv
  <2> SUFFICES ASSUME Init PROVE OrderInv /\ PoisonInv
    OBVIOUS
  <2>1. \A c \in Consumers, d \in Deliveries : ~Present(c, d) /\ cur[c] = None
    BY NotificatorAssumption DEF Init, BrokerInit, Present
  <2>2. \A c \in Consumers : outstanding[c] = {}
    BY DEF Init, BrokerInit
  <2>3. \A c \in Consumers, p \in Poisons : Stuck(c, p)
    BY <2>1, <2>2 DEF Stuck, Init
  <2>4. \A m \in Msgs : Untouched(m)
    BY DEF Init, BrokerInit, Untouched, Strays
  <2> QED BY <2>3, <2>4 DEF Init, BrokerInit, OrderInv, Owned, PoisonInv
<1>2. TypeInv /\ SafetyInv /\ OrderInv /\ PoisonInv /\ [Next]_vars => OrderInv' /\ PoisonInv'
  BY OrderStep, PoisonStep
<1>3. ASSUME OrderInv, PoisonInv, TypeInv, SafetyInv PROVE PoisonBlocksQueue
  <2> SUFFICES ASSUME NEW p \in Malformed \cap published, ~IsPush(p),
                      NEW m \in published, p <= m, QueueOf[m] = QueueOf[p]
               PROVE  accepts[m] = 0 /\ m \notin errorQueue /\ m \notin Discharged
    BY DEF PoisonBlocksQueue
  <2>1. p \in Poisons /\ Behind(p, m) /\ m \in Msgs /\ m \in Nat /\ p \in Nat
    BY OwnedFacts, <1>3 DEF Poisons, Behind, SameQueue
  <2>2. Untouched(m) /\ Owned(p)
    BY <1>3, <2>1, PoisonFacts
  <2>3. ASSUME ~Owned(m) PROVE FALSE
    <3>1. m < p
      BY <1>3, <2>1, <2>2, <2>3 DEF OrderInv, Behind, SameQueue
    <3> QED BY <2>1, <3>1
  <2> QED BY <2>2, <2>3, PendingIsOwned DEF Untouched, Discharged
<1> QED BY <1>1, <1>2, <1>3, TypeInvariant, SafetyInvariant, PTL DEF Spec

-----------------------------------------------------------------------------
(* A success is not repeated.                                              *)

\* The remote side, or the broker for the error queue, has it.
Touched(m) == accepts[m] > 0 \/ m \in errorQueue

\* The task of channel c knows that d is done and acknowledges it.
Settling(c, d) ==
  \/ /\ cur[c] = d
     /\ phase[c] = "acking" \/ (phase[c] \in {"sending", "publishing"} /\ req[c] = "ok")
  \/ frames[c] = <<AckFrame(d.tag)>>

\* What was touched waits nowhere, and who holds it will acknowledge it.
CleanMsg(m) ==
  /\ m \notin Strays /\ \A p \in late : p[2] # m
  /\ accepts[m] < 2 /\ ~(accepts[m] > 0 /\ m \in errorQueue)
  /\ Touched(m) =>
       /\ m \in published /\ m \notin ready
       /\ \A c \in Consumers : \A d \in outstanding[c] : d.msg = m => Settling(c, d)

\* All that a task without its connection can still work on is disturbed.
CutOff(c) ==
  ~Connected(c) =>
    /\ cur[c] # None => cur[c].msg \in Disturbed
    /\ \A k \in DOMAIN inbox[c] : inbox[c][k].msg \in Disturbed

\* The inductive invariant behind CleanOnce.
CleanInv ==
  /\ \A m \in Msgs \ Disturbed : CleanMsg(m)
  /\ \A c \in Consumers : CutOff(c)

\* A step that does nothing new to m keeps it clean.
LEMMA CleanKept ==
  ASSUME NEW m, CleanMsg(m), published \subseteq published',
         accepts'[m] = accepts[m], m \in errorQueue' => m \in errorQueue,
         m \in Strays' => m \in Strays,
         \A p \in late' : p \in late \/ p[2] # m,
         Touched(m) =>
           /\ m \in ready' => m \in ready
           /\ \A c \in Consumers : \A d \in outstanding'[c] :
                d.msg = m => d \in outstanding[c] /\ (Settling(c, d) => Settling(c, d)')
  PROVE  CleanMsg(m)'
<1>1. Touched(m)' => Touched(m)
  BY DEF Touched
<1> HIDE DEF Touched
<1>2. /\ m \notin Strays' /\ \A p \in late' : p[2] # m
      /\ accepts'[m] < 2 /\ ~(accepts'[m] > 0 /\ m \in errorQueue')
  BY DEF CleanMsg
<1>3. Touched(m)' =>
        /\ m \in published' /\ m \notin ready'
        /\ \A c \in Consumers : \A d \in outstanding'[c] : d.msg = m => Settling(c, d)'
  BY <1>1 DEF CleanMsg
<1> QED BY <1>2, <1>3 DEF CleanMsg

\* A task that handles something undisturbed has its channel, and nothing else.
LEMMA InHandFacts ==
  ASSUME TypeInv, SafetyInv, CleanInv, NEW c \in Consumers, phase[c] \in Busy
  PROVE  /\ cur[c] \in Deliveries /\ cur[c] # None /\ frames[c] = <<>>
         /\ outstanding[c] \subseteq {cur[c]}
         /\ Connected(c) <=> outstanding[c] = {cur[c]}
         /\ cur[c].msg \notin Disturbed => Connected(c)
<1>1. cur[c] \in Deliveries /\ cur[c] # None
  BY NotificatorAssumption DEF TypeInv, BusyHolds
<1>2. CASE Connected(c)
  <2>1. PICK d \in Deliveries : outstanding[c] = {d} /\ InHand(c, d)
    BY <1>1, <1>2, SafetyByTask
       DEF Local, ChannelInv, NothingHeld, OneHeld, Unpolled, SettledByFrame
  <2> QED BY <1>1, <1>2, <2>1 DEF InHand
<1>3. CASE ~Connected(c)
  <2>1. outstanding[c] = {} /\ frames[c] = <<>>
    BY <1>3, SafetyByTask DEF Local, ChannelInv
  <2> QED BY <1>1, <1>3, <2>1 DEF CleanInv, CutOff
<1> QED BY <1>2, <1>3

\* The one owner of an outstanding notification.
LEMMA OneOwner ==
  ASSUME SafetyInv, NEW c \in Consumers, NEW d \in outstanding[c]
  PROVE  /\ d.msg \notin ready
         /\ \A e \in Consumers : \A x \in outstanding[e] : x.msg = d.msg => e = c
BY SafetyByTask DEF OwnershipInv

\* A new notification was not touched before.
LEMMA PublishClean ==
  ASSUME TypeInv, SafetyInv, CleanInv, NEW n \in Msgs, Publish(n)
  PROVE  CleanInv'
<1>1. /\ n \notin published /\ published' = published \cup {n}
      /\ ready' = ready \cup {n}
      /\ UNCHANGED <<outstanding, inbox, frames, link, errorQueue, taskVars, historyVars>>
  BY DEF Publish, Enqueue
<1>2. ASSUME NEW m \in Msgs \ Disturbed PROVE CleanMsg(m)'
  <2>1. CleanMsg(m)
    BY DEF CleanInv
  <2>2. Touched(m) => m # n
    BY <1>1, <2>1 DEF CleanMsg
  <2>3. \A c, d : Settling(c, d)' <=> Settling(c, d)
    BY <1>1 DEF Settling, taskVars
  <2> QED BY <1>1, <2>1, <2>2, <2>3, CleanKept, HistoryUnchanged
<1>3. \A c \in Consumers : CutOff(c)'
  BY <1>1, HistoryUnchanged DEF CleanInv, CutOff, Connected, taskVars
<1> QED BY <1>1, <1>2, <1>3, HistoryUnchanged DEF CleanInv

\* What is delivered was waiting, so nobody has touched it.
LEMMA DeliverClean ==
  ASSUME TypeInv, SafetyInv, CleanInv, NEW c \in Consumers, BrokerDeliver(c)
  PROVE  CleanInv'
<1>1. /\ UNCHANGED <<published, frames, link, errorQueue, taskVars, historyVars>>
      /\ Connected(c)
  BY DeliverFacts DEF BrokerDeliver, Deliver
<1>2. PICK d \in Deliveries :
        /\ IsHead(d.msg, c[2]) /\ ready' = ready \ {d.msg}
        /\ outstanding'[c] = {d} /\ inbox'[c] = <<d>>
        /\ \A e \in Consumers \ {c} :
             outstanding'[e] = outstanding[e] /\ inbox'[e] = inbox[e]
  BY DeliverFacts
<1>3. ASSUME NEW m \in Msgs \ Disturbed PROVE CleanMsg(m)'
  <2>1. CleanMsg(m)
    BY DEF CleanInv
  <2>2. Touched(m) => m # d.msg
    BY <1>2, <2>1 DEF CleanMsg, IsHead
  <2>3. \A e, x : Settling(e, x)' <=> Settling(e, x)
    BY <1>1 DEF Settling, taskVars
  <2>4. \A e \in Consumers : \A x \in outstanding'[e] : x = d \/ x \in outstanding[e]
    BY <1>2
  <2> QED BY <1>1, <1>2, <2>1, <2>2, <2>3, <2>4, CleanKept, HistoryUnchanged
<1>4. \A e \in Consumers : CutOff(e)'
  BY <1>1, <1>2, HistoryUnchanged DEF CleanInv, CutOff, Connected, taskVars
<1> QED BY <1>1, <1>3, <1>4, HistoryUnchanged DEF CleanInv

\* What is requeued was nacked, and what was touched is not nacked.
LEMMA SettleClean ==
  ASSUME TypeInv, SafetyInv, CleanInv, NEW c \in Consumers, BrokerAck(c) \/ BrokerNack(c)
  PROVE  CleanInv'
<1>1. /\ cur[c] = None
      /\ UNCHANGED <<published, inbox, link, errorQueue, taskVars, historyVars>>
      /\ outstanding'[c] = {} /\ frames'[c] = <<>>
      /\ \A e \in Consumers \ {c} :
           outstanding'[e] = outstanding[e] /\ frames'[e] = frames[e]
  BY SettleFacts
<1>2. PICK d \in Deliveries :
        /\ outstanding[c] = {d}
        /\ \/ frames[c] = <<AckFrame(d.tag)>> /\ ready' = ready
           \/ frames[c] = <<NackFrame>> /\ ready' = ready \cup {d.msg}
  BY SettleFacts
<1>3. ASSUME NEW m \in Msgs \ Disturbed PROVE CleanMsg(m)'
  <2>1. CleanMsg(m)
    BY DEF CleanInv
  <2>2. ASSUME Touched(m), m \in ready' PROVE m \in ready
    <3> SUFFICES ASSUME m = d.msg, frames[c] = <<NackFrame>> PROVE FALSE
      BY <1>2, <2>2
    <3>1. Settling(c, d)
      BY <1>2, <2>1, <2>2 DEF CleanMsg
    <3>2. cur[c] # d
      BY <1>1, NotificatorAssumption
    <3>3. <<NackFrame>> # <<AckFrame(d.tag)>>
      <4>1. NackFrame # AckFrame(d.tag)
        BY DEF NackFrame, AckFrame
      <4> QED BY <4>1
    <3> QED BY <3>1, <3>2, <3>3 DEF Settling
  <2>3. \A e \in Consumers : \A x \in outstanding'[e] :
          x \in outstanding[e] /\ (Settling(e, x) => Settling(e, x)')
    BY <1>1 DEF Settling, taskVars
  <2> QED BY <1>1, <2>1, <2>2, <2>3, CleanKept, HistoryUnchanged
<1>4. \A e \in Consumers : CutOff(e)'
  BY <1>1, HistoryUnchanged DEF CleanInv, CutOff, Connected, taskVars
<1> QED BY <1>1, <1>3, <1>4, HistoryUnchanged DEF CleanInv

\* What a task polls was not touched, or it is disturbed.
LEMMA TakeClean ==
  ASSUME TypeInv, SafetyInv, CleanInv, NEW c \in Consumers,
         TakePush(c) \/ TakeMalformed(c) \/ TakeAndSend(c)
  PROVE  CleanInv'
<1>1. /\ UNCHANGED <<published, ready, outstanding, frames, link, errorQueue,
                     historyVars>>
      /\ cur[c] = None
      /\ \A k \in DOMAIN inbox'[c] : \E l \in DOMAIN inbox[c] : inbox'[c][k] = inbox[c][l]
      /\ \E l \in DOMAIN inbox[c] : inbox[c][l] = cur'[c]
      /\ \A e \in Consumers \ {c} :
           /\ inbox'[e] = inbox[e] /\ cur'[e] = cur[e]
           /\ phase'[e] = phase[e] /\ req'[e] = req[e]
  BY TakeFacts
<1>2. ASSUME NEW m \in Msgs \ Disturbed PROVE CleanMsg(m)'
  <2>1. CleanMsg(m)
    BY DEF CleanInv
  <2>2. \A e \in Consumers : \A x \in outstanding[e] : Settling(e, x) => Settling(e, x)'
    <3> SUFFICES ASSUME NEW e \in Consumers, NEW x \in outstanding[e], Settling(e, x)
                 PROVE  Settling(e, x)'
      OBVIOUS
    <3>1. x \in Deliveries
      BY OwnedFacts
    <3> QED BY <1>1, <3>1, NotificatorAssumption DEF Settling
  <2> QED BY <1>1, <2>1, <2>2, CleanKept, HistoryUnchanged
<1>3. \A e \in Consumers : CutOff(e)'
  BY <1>1, HistoryUnchanged DEF CleanInv, CutOff, Connected
<1> QED BY <1>1, <1>2, <1>3, HistoryUnchanged DEF CleanInv

\* What a handler does to the notification in its hands, and to no other.
LEMMA HandlerClean ==
  ASSUME TypeInv, SafetyInv, CleanInv, NEW c \in Consumers, HandlerStep(c)
  PROVE  CleanInv'
<1> PICK held \in Msgs : held = cur[c].msg
  BY HandlerFacts
<1>1. /\ phase[c] \in Handling /\ held \in published
      /\ UNCHANGED <<published, ready, outstanding, inbox, frames, link, cur>>
      /\ \A e \in Consumers \ {c} : phase'[e] = phase[e] /\ req'[e] = req[e]
  BY HandlerFacts
<1>2. /\ cur[c] \in Deliveries /\ cur[c] # None /\ frames[c] = <<>>
      /\ outstanding[c] \subseteq {cur[c]}
      /\ Connected(c) <=> outstanding[c] = {cur[c]}
      /\ held \notin Disturbed => Connected(c)
  BY <1>1, InHandFacts DEF Busy
<1>3. /\ Disturbed \subseteq Disturbed'
      /\ \A m \in Strays' : m \in Strays \/ m = held
  BY HandlerStrays, HandlerHits
<1>4. /\ errorQueue' \subseteq errorQueue \cup {held}
      /\ \A m \in Msgs : m # held => accepts'[m] = accepts[m]
      /\ \A p \in late' : p[2] = held \/ p \in late
  BY DEF HandlerStep, brokerVars, historyVars, Counted, TypeInv, TypeOK,
         AttemptOk, AttemptFailed, Retry, GiveUp, PublishDone, RetryTimerFails,
         Answer, RemoteAccept, RemoteAcceptUnusable, RemoteRefuse, ErrorStored,
         ErrorRefused, HandlerTimeout
<1>5. ASSUME NEW m \in Msgs \ Disturbed', m # held PROVE CleanMsg(m)'
  <2>1. CleanMsg(m)
    BY <1>3, <1>5 DEF CleanInv
  <2>2. \A e \in Consumers : \A x \in outstanding[e] :
          x.msg = m => (Settling(e, x) => Settling(e, x)')
    <3> SUFFICES ASSUME NEW e \in Consumers, NEW x \in outstanding[e], x.msg = m
                 PROVE  Settling(e, x) => Settling(e, x)'
      OBVIOUS
    <3>1. e # c
      BY <1>2, <1>5
    <3> QED BY <1>1, <3>1 DEF Settling
  <2> QED BY <1>1, <1>3, <1>5, <1>4, <2>1, <2>2, CleanKept
<1>6. ASSUME held \notin Disturbed' PROVE CleanMsg(held)'
  <2>1. CleanMsg(held) /\ Connected(c) /\ outstanding[c] = {cur[c]}
    BY <1>1, <1>2, <1>3, <1>6 DEF CleanInv
  <2>2. \A e \in Consumers : \A x \in outstanding[e] :
          x.msg = held => e = c /\ x = cur[c]
    BY <1>2, <2>1, OneOwner
  <2>3. held \notin ready
    BY <2>1, OneOwner
  <2>4. Touched(held) => Settling(c, cur[c])
    BY <1>2, <2>1 DEF CleanMsg
  <2>5. Touched(held) => phase[c] \in {"sending", "publishing"} /\ req[c] = "ok"
    <3>1. <<>> # <<AckFrame(cur[c].tag)>>
      OBVIOUS
    <3> QED BY <1>1, <1>2, <2>4, <3>1 DEF Settling, Handling
  <2>6. CASE RemoteAccept(c)
    <3>1. ~Touched(held)
      BY <2>5, <2>6 DEF RemoteAccept
    <3>2. /\ accepts'[held] = 1 /\ held \notin errorQueue'
          /\ phase'[c] = "sending" /\ req'[c] = "ok" /\ Strays' = Strays /\ late' = late
      BY <1>1, <2>6, <3>1
         DEF Touched, Strays, RemoteAccept, Counted, Move, SetTask, brokerVars, TypeInv, TypeOK
    <3>3. Settling(c, cur[c])'
      BY <1>1, <3>2 DEF Settling
    <3>4. \A e \in Consumers : \A x \in outstanding'[e] : x.msg = held => Settling(e, x)'
      BY <1>1, <2>2, <3>3
    <3> QED BY <1>1, <2>1, <2>3, <3>2, <3>4 DEF CleanMsg
  <2>7. CASE ErrorStored(c)
    <3>1. ~Touched(held)
      BY <2>5, <2>7 DEF ErrorStored
    <3>2. /\ accepts'[held] = accepts[held] /\ accepts[held] = 0
          /\ phase'[c] = "publishing" /\ req'[c] = "ok" /\ Strays' = Strays /\ late' = late
      BY <1>1, <2>7, <3>1
         DEF Touched, Strays, ErrorStored, historyVars, Move, SetTask, TypeInv, TypeOK
    <3>3. Settling(c, cur[c])'
      BY <1>1, <3>2 DEF Settling
    <3>4. \A e \in Consumers : \A x \in outstanding'[e] : x.msg = held => Settling(e, x)'
      BY <1>1, <2>2, <3>3
    <3> QED BY <1>1, <2>1, <2>3, <3>2, <3>4 DEF CleanMsg
  <2>8. CASE RemoteAcceptUnusable(c) \/ HandlerTimeout(c)
    BY <1>6, <2>8, HandlerHits
  <2>9. CASE \/ AttemptOk(c) \/ AttemptFailed(c) \/ Retry(c) \/ GiveUp(c)
             \/ PublishDone(c) \/ RetryTimerFails(c) \/ RemoteRefuse(c)
             \/ ErrorRefused(c)
    <3>1. accepts' = accepts /\ errorQueue' = errorQueue /\ Strays' = Strays /\ late' = late
      BY <2>9 DEF Strays, AttemptOk, AttemptFailed, Retry, GiveUp, PublishDone,
                  RetryTimerFails, RemoteRefuse, ErrorRefused, brokerVars, historyVars
    <3>2. Touched(held) => (phase'[c] = "acking")
      BY <2>5, <2>9
         DEF AttemptOk, AttemptFailed, Retry, GiveUp, PublishDone, RetryTimerFails,
             RemoteRefuse, ErrorRefused, Move, SetTask, TypeInv, TypeOK
    <3>3. Touched(held) => Settling(c, cur[c])'
      BY <1>1, <3>2 DEF Settling
    <3>4. Touched(held) =>
            \A e \in Consumers : \A x \in outstanding'[e] :
              x.msg = held => x \in outstanding[e] /\ Settling(e, x)'
      BY <1>1, <2>2, <3>3
    <3> QED BY <1>1, <2>1, <3>1, <3>4, CleanKept
  <2> QED BY <2>6, <2>7, <2>8, <2>9 DEF HandlerStep, Answer
<1>7. \A e \in Consumers : CutOff(e)'
  BY <1>1, <1>3 DEF CleanInv, CutOff, Connected
<1> QED BY <1>5, <1>6, <1>7 DEF CleanInv

\* A task nacks nothing that was touched.
LEMMA EndClean ==
  ASSUME TypeInv, SafetyInv, CleanInv, NEW c \in Consumers,
         Ack(c) \/ Nack(c) \/ TaskEnds(c)
  PROVE  CleanInv'
<1>1. /\ UNCHANGED <<published, ready, outstanding, inbox, link, errorQueue,
                     historyVars>>
      /\ cur'[c] = None
      /\ \A e \in Consumers \ {c} :
           /\ frames'[e] = frames[e] /\ cur'[e] = cur[e]
           /\ phase'[e] = phase[e] /\ req'[e] = req[e]
  BY EndFacts
<1>2. ASSUME NEW m \in Msgs \ Disturbed PROVE CleanMsg(m)'
  <2>1. CleanMsg(m)
    BY DEF CleanInv
  <2>2. ASSUME NEW d \in Deliveries, outstanding[c] = {d}, cur[c] = d, Settling(c, d),
               \/ phase[c] = "acking" /\ frames'[c] = <<AckFrame(d.tag)>>
               \/ phase[c] = "failed" /\ frames'[c] = <<NackFrame>>
        PROVE  Settling(c, d)'
    <3>1. frames[c] = <<>>
      BY <2>2, InHandFacts DEF Busy
    <3>2. <<>> # <<AckFrame(d.tag)>>
      OBVIOUS
    <3>3. phase[c] # "failed"
      BY <2>2, <3>1, <3>2 DEF Settling
    <3> QED BY <2>2, <3>3 DEF Settling
  <2>3. \A x \in outstanding[c] : Settling(c, x) => Settling(c, x)'
    BY <2>2, EndFacts
  <2>4. \A e \in Consumers : \A x \in outstanding[e] : Settling(e, x) => Settling(e, x)'
    BY <1>1, <2>3 DEF Settling
  <2> QED BY <1>1, <2>1, <2>4, CleanKept, HistoryUnchanged
<1>3. \A e \in Consumers : CutOff(e)'
  BY <1>1, HistoryUnchanged DEF CleanInv, CutOff, Connected
<1> QED BY <1>1, <1>2, <1>3, HistoryUnchanged DEF CleanInv

\* What arrives late is disturbed.
LEMMA LateClean ==
  ASSUME TypeInv, SafetyInv, CleanInv,
         \/ UNCHANGED vars
         \/ \E m \in Msgs : StrayAccept(m)
         \/ \E i \in Instances, m \in Msgs : LateStored(i, m)
  PROVE  CleanInv'
<1>1. UNCHANGED <<published, ready, outstanding, inbox, frames, link, taskVars>>
      /\ Disturbed' = Disturbed
  BY DEF Disturbed, vars, brokerVars, historyVars, StrayAccept, LateStored
<1>2. ASSUME NEW m \in Msgs \ Disturbed PROVE CleanMsg(m)'
  <2>1. CleanMsg(m)
    BY DEF CleanInv
  <2>2. /\ accepts'[m] = accepts[m] /\ (m \in errorQueue' => m \in errorQueue)
        /\ Strays' \subseteq Strays /\ late' \subseteq late
    BY <2>1 DEF CleanMsg, Strays, vars, brokerVars, historyVars, StrayAccept, LateStored,
                Counted, TypeInv, TypeOK
  <2>3. \A e, x : Settling(e, x)' <=> Settling(e, x)
    BY <1>1 DEF Settling, taskVars
  <2> QED BY <1>1, <2>1, <2>2, <2>3, CleanKept
<1>3. \A e \in Consumers : CutOff(e)'
  BY <1>1 DEF CleanInv, CutOff, Connected, taskVars
<1> QED BY <1>1, <1>2, <1>3 DEF CleanInv

\* A process that starts has no delivery.
LEMMA StartClean ==
  ASSUME TypeInv, SafetyInv, CleanInv, NEW i \in Instances, Start(i)
  PROVE  CleanInv'
<1>1. /\ UNCHANGED <<published, ready, outstanding, inbox, frames, cur, errorQueue,
                     req, historyVars>>
      /\ link[i] = "stopped" /\ link' = [link EXCEPT ![i] = "connected"]
      /\ \A c \in Consumers : c[1] # i => phase'[c] = phase[c]
  BY DEF Start
<1>2. \A c \in Consumers : c[1] = i => outstanding[c] = {}
  BY <1>1, SafetyByTask DEF Local, ChannelInv, Connected
<1>3. ASSUME NEW m \in Msgs \ Disturbed PROVE CleanMsg(m)'
  <2>1. CleanMsg(m)
    BY DEF CleanInv
  <2>2. \A e \in Consumers : \A x \in outstanding[e] : Settling(e, x) => Settling(e, x)'
    BY <1>1, <1>2 DEF Settling
  <2> QED BY <1>1, <2>1, <2>2, CleanKept, HistoryUnchanged
<1>4. \A e \in Consumers : Connected(e) => Connected(e)'
  BY <1>1 DEF Connected, TypeInv, TypeOK, BrokerTypeOK, Consumers
<1>5. \A e \in Consumers : CutOff(e)'
  BY <1>1, <1>4, HistoryUnchanged DEF CleanInv, CutOff
<1> QED BY <1>1, <1>3, <1>5, HistoryUnchanged DEF CleanInv

\* A fault disturbs whatever was held on the channels it closes.
LEMMA CloseClean ==
  ASSUME TypeInv, SafetyInv, CleanInv,
         \/ \E i \in Instances : Crash(i) \/ ConnectionLost(i)
         \/ BrokerRestart
  PROVE  CleanInv'
<1>1. PICK I \in SUBSET Instances :
        /\ CloseChannels(I) /\ published' = published
        /\ hits' = Hit(HeldBy(I))
        /\ \A c \in Consumers : c[1] \notin I => (Connected(c)' <=> Connected(c))
        /\ \A c \in Consumers :
             \/ UNCHANGED <<inbox[c], cur[c], phase[c], req[c]>>
             \/ c[1] \in I /\ inbox'[c] = <<>> /\ cur'[c] = None
        /\ stray' = stray \/ stray' = WithStrays(ChannelsOf(I))
  <2>1. ASSUME NEW i \in Instances, Crash(i)
        PROVE  /\ CloseChannels({i}) /\ published' = published
               /\ hits' = Hit(HeldBy({i}))
               /\ \A c \in Consumers : c[1] \notin {i} => (Connected(c)' <=> Connected(c))
               /\ \A c \in Consumers :
                    \/ UNCHANGED <<inbox[c], cur[c], phase[c], req[c]>>
                    \/ c[1] \in {i} /\ inbox'[c] = <<>> /\ cur'[c] = None
               /\ stray' = WithStrays(ChannelsOf({i}))
    BY <2>1 DEF Crash, ChannelsOf, Connected, TypeInv, TypeOK, BrokerTypeOK, Consumers
  <2>2. ASSUME NEW i \in Instances, ConnectionLost(i)
        PROVE  /\ CloseChannels({i}) /\ published' = published
               /\ hits' = Hit(HeldBy({i}))
               /\ \A c \in Consumers : c[1] \notin {i} => (Connected(c)' <=> Connected(c))
               /\ UNCHANGED <<inbox, cur, phase, req, stray>>
    BY <2>2 DEF ConnectionLost, taskVars, Connected, TypeInv, TypeOK, BrokerTypeOK, Consumers
  <2>3. ASSUME BrokerRestart
        PROVE  /\ CloseChannels(Instances) /\ published' = published
               /\ hits' = Hit(HeldBy(Instances))
               /\ \A c \in Consumers : c[1] \in Instances
               /\ UNCHANGED <<inbox, cur, phase, req, stray>>
    BY <2>3 DEF BrokerRestart, taskVars, Consumers
  <2> QED BY <2>1, <2>2, <2>3
<1>2. /\ Disturbed \subseteq Disturbed'
      /\ \A m \in Msgs : m \in HeldBy(I) => m \in Disturbed'
      /\ \A m \in Strays' : m \in Strays \/ \E c \in ChannelsOf(I) : m \in Abandoned(c)
  <2>1. Disturbed \subseteq Disturbed' /\ \A m \in Msgs : m \in HeldBy(I) => m \in Disturbed'
    BY <1>1, HitType DEF TypeInv, TypeOK, Disturbed
  <2> QED BY <1>1, <2>1, StraysGrow, StraysUnchanged DEF TypeInv, TypeOK
<1>3. accepts' = accepts /\ errorQueue' \subseteq errorQueue /\ late' \subseteq late
  BY DEF Crash, ConnectionLost, BrokerRestart
<1>4. /\ ready' = ready \cup HeldBy(I)
      /\ \A c \in Consumers :
           IF c[1] \in I THEN outstanding'[c] = {} /\ frames'[c] = <<>>
           ELSE outstanding'[c] = outstanding[c] /\ frames'[c] = frames[c]
  BY <1>1, CloseFacts
<1>5. ASSUME NEW c \in Consumers, c[1] \in I
      PROVE  /\ cur[c] # None => cur[c].msg \in Disturbed'
             /\ \A k \in DOMAIN inbox[c] : inbox[c][k].msg \in Disturbed'
  <2>1. CASE Connected(c)
    <3>1. ASSUME NEW m, Holds(c, m) PROVE m \in Disturbed'
      BY <1>5, <1>2, <2>1, <3>1, HeldIsOutstanding, HeldFacts, HeldInMsgs
    <3> QED BY <3>1 DEF Holds
  <2>2. CASE ~Connected(c)
    BY <1>2, <2>2 DEF CleanInv, CutOff
  <2> QED BY <2>1, <2>2
<1>6. ASSUME NEW m \in Msgs \ Disturbed' PROVE CleanMsg(m)'
  <2>1. CleanMsg(m) /\ m \notin HeldBy(I)
    BY <1>6, <1>2 DEF CleanInv
  <2>2. m \in Strays' => m \in Strays
    <3>1. ASSUME NEW c \in ChannelsOf(I) PROVE m \notin Abandoned(c)
      <4>1. phase[c] = "sending" => cur[c] # None
        BY NotificatorAssumption DEF TypeInv, BusyHolds, Busy, Handling, ChannelsOf
      <4> QED BY <1>5, <1>6, <4>1 DEF Abandoned, ChannelsOf
    <3> QED BY <1>2, <3>1
  <2>3. \A c \in Consumers : \A d \in outstanding'[c] :
          d \in outstanding[c] /\ (Settling(c, d) => Settling(c, d)')
    BY <1>1, <1>4 DEF Settling
  <2> QED BY <1>1, <1>3, <1>4, <2>1, <2>2, <2>3, CleanKept
<1>7. ASSUME NEW c \in Consumers PROVE CutOff(c)'
  <2>1. CASE c[1] \in I
    BY <1>1, <1>5, <2>1 DEF CutOff
  <2>2. CASE c[1] \notin I
    BY <1>1, <1>2, <2>2 DEF CleanInv, CutOff
  <2> QED BY <2>1, <2>2
<1> QED BY <1>6, <1>7 DEF CleanInv

\* Every step keeps what is undisturbed clean.
LEMMA CleanStep ==
  ASSUME TypeInv, SafetyInv, CleanInv, [Next]_vars
  PROVE  CleanInv'
BY PublishClean, DeliverClean, SettleClean, TakeClean, HandlerClean, EndClean,
   LateClean, StartClean, CloseClean
   DEF Next, BrokerStep, TaskStep, TaskFault, HandlerStep

(***************************************************************************)
(* For any number of instances and notifications: without a timeout, a     *)
(* crash, a lost connection, a broker restart or an unusable answer the    *)
(* remote service processes a notification at most once and none that it   *)
(* processed is parked too (services/rabbit.rs:157, the retry loops, and   *)
(* lib.rs:131, the answer to the broker).                                  *)
(***************************************************************************)
THEOREM SuccessNotRepeated == Spec => []CleanOnce
<1>1. Init => CleanInv
  <2> SUFFICES ASSUME Init PROVE CleanInv
    OBVIOUS
  <2>1. \A m \in Msgs : CleanMsg(m)
    BY DEF Init, BrokerInit, CleanMsg, Touched, Strays
  <2>2. \A c \in Consumers : CutOff(c)
    BY DEF Init, BrokerInit, CutOff
  <2> QED BY <2>1, <2>2 DEF CleanInv
<1>2. TypeInv /\ SafetyInv /\ CleanInv /\ [Next]_vars => CleanInv'
  BY CleanStep
<1>3. CleanInv => CleanOnce
  BY DEF CleanInv, CleanMsg, CleanOnce
<1> QED BY <1>1, <1>2, <1>3, TypeInvariant, SafetyInvariant, PTL DEF Spec
=============================================================================
