------------------------- MODULE NotificatorProofs --------------------------
(***************************************************************************)
(* TypeOK and SafetyInv are invariants of Notificator for any instances,   *)
(* notifications, queues, tags, number of attempts and fault budget;       *)
(* NoSilentLoss, SettlesWhatItHolds, OneHandler and the refinement of      *)
(* NotificationLedger follow from them.                                    *)
(***************************************************************************)
EXTENDS Notificator, FiniteSetTheorems, TLAPS

-----------------------------------------------------------------------------
(* Types.                                                                  *)

\* TypeOK alone is not inductive: a task that handles something has to have
\* a delivery, or the message it counts, parks or settles is no message.
BusyHolds == \A c \in Consumers : phase[c] \in Busy => cur[c] \in Deliveries

TypeInv == TypeOK /\ BusyHolds

\* A message of a delivery is a message, its tag a tag.
LEMMA DeliveryFields ==
  ASSUME NEW d \in Deliveries
  PROVE  d.msg \in Msgs /\ d.tag \in Tags
BY DEF Deliveries

\* Counting keeps the counter of every message a number, and never falls.
LEMMA CountedType ==
  ASSUME accepts \in [Msgs -> Nat], NEW m \in Msgs
  PROVE  /\ Counted(m) \in [Msgs -> Nat]
         /\ Counted(m)[m] > 0
         /\ \A k \in Msgs : accepts[k] > 0 => Counted(m)[k] > 0
BY DEF Counted

\* So does a fault that hits some messages.
LEMMA HitType ==
  ASSUME hits \in [Msgs -> Nat], NEW S
  PROVE  /\ Hit(S) \in [Msgs -> Nat]
         /\ \A m \in Msgs : Hit(S)[m] > 0 <=> hits[m] > 0 \/ m \in S
BY DEF Hit

\* The requests that dropped tasks leave behind join the abandoned ones.
LEMMA StraysGrow ==
  ASSUME stray \in [Msgs -> Nat], NEW C, stray' = WithStrays(C)
  PROVE  /\ stray' \in [Msgs -> Nat]
         /\ \A m \in Strays' : m \in Strays \/ \E c \in C : m \in Abandoned(c)
<1>1. \A m \in Msgs :
        stray'[m] = IF \E c \in C : m \in Abandoned(c) THEN stray[m] + 1 ELSE stray[m]
  BY DEF WithStrays
<1>2. stray' \in [Msgs -> Nat]
  BY DEF WithStrays
<1> QED BY <1>1, <1>2 DEF Strays

LEMMA StraysUnchanged ==
  ASSUME stray' = stray PROVE Strays' = Strays
BY DEF Strays

\* What is held by some instances is a set of messages.
LEMMA HeldByType ==
  ASSUME BrokerTypeOK, NEW I \in SUBSET Instances
  PROVE  HeldBy(I) \subseteq Msgs
<1> SUFFICES ASSUME NEW c \in ChannelsOf(I), NEW d \in outstanding[c]
             PROVE  d.msg \in Msgs
  BY DEF HeldBy, MsgsOf
<1>1. d \in Deliveries
  BY DEF BrokerTypeOK, ChannelsOf
<1> QED BY <1>1, DeliveryFields

\* What a frame covers is a set of deliveries.
LEMMA CoveredType ==
  ASSUME BrokerTypeOK, NEW c \in Consumers, NEW f
  PROVE  /\ Covered(c, f) \subseteq Deliveries
         /\ MsgsOf(Covered(c, f)) \subseteq Msgs
<1>1. Covered(c, f) \subseteq Deliveries
  BY DEF Covered, BrokerTypeOK
<1> QED BY <1>1, DeliveryFields DEF MsgsOf

\* The state of a task is set to values of the right kinds.
LEMMA SetTaskType ==
  ASSUME TypeInv,
         NEW c \in Consumers, NEW p \in Phases, NEW d \in Deliveries \cup {None},
         NEW n \in 0..MaxAttempts, NEW r \in ReqStates,
         p \in Busy => d \in Deliveries,
         SetTask(c, p, d, n, r)
  PROVE  /\ phase' \in [Consumers -> Phases]
         /\ cur' \in [Consumers -> Deliveries \cup {None}]
         /\ tries' \in [Consumers -> 0..MaxAttempts]
         /\ req' \in [Consumers -> ReqStates]
         /\ BusyHolds'
<1>1. /\ phase' \in [Consumers -> Phases]
      /\ cur' \in [Consumers -> Deliveries \cup {None}]
      /\ tries' \in [Consumers -> 0..MaxAttempts]
      /\ req' \in [Consumers -> ReqStates]
  BY DEF TypeInv, TypeOK, SetTask
<1>2. BusyHolds'
  BY DEF TypeInv, TypeOK, SetTask, BusyHolds
<1> QED BY <1>1, <1>2

\* Sending a frame keeps the frames typed.
LEMMA SendFrameType ==
  ASSUME BrokerTypeOK, NEW c \in Consumers,
         NEW f \in [kind : {"ack", "nack"}, tag : Tags \cup {0}],
         SendFrame(c, f)
  PROVE  frames' \in [Consumers -> Seq([kind : {"ack", "nack"}, tag : Tags \cup {0}])]
<1> DEFINE F == [kind : {"ack", "nack"}, tag : Tags \cup {0}]
<1>1. frames \in [Consumers -> Seq(F)]
  BY DEF BrokerTypeOK
<1>0. f \in F
  OBVIOUS
<1> HIDE DEF F
<1>2. Append(frames[c], f) \in Seq(F)
  BY <1>0, <1>1
<1>3. frames' \in [Consumers -> Seq(F)]
  BY <1>1, <1>2 DEF SendFrame
<1> QED BY <1>3 DEF F

\* A fault is spent within its budget.
LEMMA SpendType ==
  ASSUME TypeOK, NEW k \in FaultKinds, Spend(k)
  PROVE  budget' \in [FaultKinds -> Nat]
BY DEF TypeOK, Spend

\* Initially everything is empty and no process runs.
LEMMA InitType == Init => TypeInv
<1> SUFFICES ASSUME Init PROVE TypeInv
  OBVIOUS
<1>1. BrokerTypeOK
  BY DEF Init, BrokerInit, BrokerTypeOK
<1>2. TypeOK
  BY <1>1, NotificatorAssumption DEF Init, TypeOK, Phases, ReqStates
<1>3. BusyHolds
  BY DEF Init, BusyHolds, Busy, Handling
<1> QED BY <1>2, <1>3 DEF TypeInv

-----------------------------------------------------------------------------
(* Steps of the broker and of the environment.                             *)

\* Publishing, delivering and settling keep the types.
LEMMA BrokerStepType ==
  ASSUME TypeInv,
         \/ \E m \in Msgs : Publish(m)
         \/ \E c \in Consumers : BrokerStep(c)
  PROVE  TypeInv'
<1> USE DEF TypeInv
<1>0. BrokerTypeOK' => TypeInv'
  <2>1. UNCHANGED <<taskVars, historyVars, budget>>
    BY DEF Publish, BrokerStep, BrokerDeliver, BrokerAck, BrokerNack
  <2> QED BY <2>1 DEF TypeOK, BusyHolds, taskVars, historyVars
<1>1. ASSUME NEW m \in Msgs, Publish(m) PROVE BrokerTypeOK'
  BY <1>1 DEF Publish, Enqueue, TypeOK, BrokerTypeOK
<1>2. ASSUME NEW c \in Consumers, BrokerDeliver(c) PROVE BrokerTypeOK'
  <2> DEFINE D(t, m) == [tag |-> t, msg |-> m]
  <2>1. PICK m \in ready, t \in Tags :
          /\ ready' = ready \ {m}
          /\ outstanding' = [outstanding EXCEPT ![c] = @ \cup {D(t, m)}]
          /\ inbox' = [inbox EXCEPT ![c] = Append(@, D(t, m))]
    BY <1>2 DEF BrokerDeliver, Deliver
  <2>2. D(t, m) \in Deliveries
    BY DEF Deliveries, TypeOK, BrokerTypeOK
  <2>3. Append(inbox[c], D(t, m)) \in Seq(Deliveries)
    BY <2>2 DEF TypeOK, BrokerTypeOK
  <2> HIDE DEF D
  <2>4. /\ outstanding' \in [Consumers -> SUBSET Deliveries]
        /\ inbox' \in [Consumers -> Seq(Deliveries)]
    BY <2>1, <2>2, <2>3 DEF TypeOK, BrokerTypeOK
  <2> QED BY <1>2, <2>1, <2>4
          DEF BrokerDeliver, Deliver, TypeOK, BrokerTypeOK
<1>3. ASSUME NEW c \in Consumers, BrokerAck(c) \/ BrokerNack(c)
      PROVE  BrokerTypeOK'
  <2> DEFINE F == [kind : {"ack", "nack"}, tag : Tags \cup {0}]
             D == Covered(c, Head(frames[c]))
  <2>1. /\ frames \in [Consumers -> Seq(F)]
        /\ frames' = [frames EXCEPT ![c] = Tail(@)]
        /\ outstanding' = [outstanding EXCEPT ![c] = @ \ D]
        /\ ready' \subseteq ready \cup MsgsOf(D)
        /\ frames[c] # <<>>
        /\ UNCHANGED <<published, inbox, link, errorQueue>>
    BY <1>3 DEF TypeOK, BrokerTypeOK, BrokerAck, BrokerNack, ApplyAck, ApplyNack
  <2>3. MsgsOf(D) \subseteq Msgs
    BY CoveredType DEF TypeOK
  <2> HIDE DEF D, F
  <2>2. Tail(frames[c]) \in Seq(F)
    BY <2>1
  <2>4. /\ frames' \in [Consumers -> Seq(F)]
        /\ outstanding' \in [Consumers -> SUBSET Deliveries]
        /\ ready' \subseteq Msgs
    BY <2>1, <2>2, <2>3 DEF TypeOK, BrokerTypeOK
  <2> QED BY <2>1, <2>4 DEF F, TypeOK, BrokerTypeOK
<1> QED BY <1>0, <1>1, <1>2, <1>3 DEF BrokerStep

-----------------------------------------------------------------------------
(* Steps of a task and of the remote side.                                 *)

\* Taking a delivery keeps the types.
LEMMA TakeType ==
  ASSUME TypeInv, NEW c \in Consumers,
         TakePush(c) \/ TakeMalformed(c) \/ TakeAndSend(c)
  PROVE  TypeInv'
<1>1. PICK d \in Deliveries, p \in {"acking", "failed", "sending"},
           n \in {0, 1}, r \in {"none", "sent"} :
        Poll(c, d) /\ SetTask(c, p, d, n, r)
  BY DEF TakePush, TakeMalformed, TakeAndSend
<1>2. n \in 0..MaxAttempts
  BY NotificatorAssumption
<1>3. /\ phase' \in [Consumers -> Phases]
      /\ cur' \in [Consumers -> Deliveries \cup {None}]
      /\ tries' \in [Consumers -> 0..MaxAttempts]
      /\ req' \in [Consumers -> ReqStates]
      /\ BusyHolds'
  <2>1. p \in Phases /\ r \in ReqStates
    BY DEF Phases, ReqStates
  <2> QED BY <1>1, <1>2, <2>1, SetTaskType
<1>4. inbox' \in [Consumers -> Seq(Deliveries)]
  BY <1>1 DEF Poll, TypeInv, TypeOK, BrokerTypeOK
<1> QED BY <1>1, <1>3, <1>4
        DEF Poll, TypeInv, TypeOK, BrokerTypeOK, historyVars

\* Moving on within a handler keeps the types.
LEMMA MoveType ==
  ASSUME TypeInv, NEW c \in Consumers, NEW p \in Phases, NEW r \in ReqStates,
         phase[c] \in Busy, Move(c, p, r)
  PROVE  /\ phase' \in [Consumers -> Phases]
         /\ cur' \in [Consumers -> Deliveries \cup {None}]
         /\ tries' \in [Consumers -> 0..MaxAttempts]
         /\ req' \in [Consumers -> ReqStates]
         /\ BusyHolds'
<1>1. cur[c] \in Deliveries /\ tries[c] \in 0..MaxAttempts
  BY DEF TypeInv, TypeOK, BusyHolds
<1> QED BY <1>1, SetTaskType DEF Move

\* Steps inside handle_message keep the types.
LEMMA HandlerStepType ==
  ASSUME TypeInv, NEW c \in Consumers,
         \/ AttemptOk(c) \/ AttemptFailed(c) \/ Retry(c) \/ GiveUp(c)
         \/ PublishDone(c) \/ RetryTimerFails(c) \/ Answer(c)
  PROVE  TypeInv'
<1> USE DEF TypeInv
<1>1. /\ phase[c] \in Busy
      /\ cur[c] \in Deliveries
      /\ cur[c].msg \in Msgs
      /\ \A p \in {"sending", "waiting", "publishing", "acking"} : p \in Phases
      /\ \A r \in {"none", "sent", "ok", "unusable", "refused"} : r \in ReqStates
  <2>1. phase[c] \in Busy
    BY DEF AttemptOk, AttemptFailed, Retry, GiveUp, PublishDone,
           RetryTimerFails, Answer, RemoteAccept, RemoteAcceptUnusable,
           RemoteRefuse, ErrorStored, ErrorRefused, Busy, Handling
  <2>2. cur[c] \in Deliveries
    BY <2>1 DEF BusyHolds
  <2> QED BY <2>1, <2>2, DeliveryFields DEF Phases, ReqStates
<1>2. /\ phase' \in [Consumers -> Phases]
      /\ cur' \in [Consumers -> Deliveries \cup {None}]
      /\ tries' \in [Consumers -> 0..MaxAttempts]
      /\ req' \in [Consumers -> ReqStates]
      /\ BusyHolds'
  <2>1. CASE Retry(c)
    <3>1. tries[c] + 1 \in 0..MaxAttempts
      BY <2>1, NotificatorAssumption DEF Retry, TypeOK
    <3>2. SetTask(c, "sending", cur[c], tries[c] + 1, "sent")
      BY <2>1 DEF Retry
    <3> QED BY <1>1, <3>1, <3>2, SetTaskType
  <2>2. ASSUME ~Retry(c)
        PROVE  \E p \in {"sending", "waiting", "publishing", "acking"},
                  r \in {"none", "sent", "ok", "unusable", "refused"} : Move(c, p, r)
    BY <2>2 DEF AttemptOk, AttemptFailed, GiveUp, PublishDone, RetryTimerFails,
                Answer, RemoteAccept, RemoteAcceptUnusable, RemoteRefuse,
                ErrorStored, ErrorRefused
  <2> QED BY <1>1, <2>1, <2>2, MoveType
<1>3. /\ accepts' \in [Msgs -> Nat]
      /\ stray' \in [Msgs -> Nat] /\ late' \subseteq Instances \X Msgs
      /\ excused' \subseteq Msgs /\ hits' \in [Msgs -> Nat]
  BY <1>1, CountedType, HitType
     DEF TypeOK, historyVars, AttemptOk, AttemptFailed, Retry, GiveUp,
         PublishDone, RetryTimerFails, Answer, RemoteAccept,
         RemoteAcceptUnusable, RemoteRefuse, ErrorStored, ErrorRefused
<1>4. budget' \in [FaultKinds -> Nat]
  BY SpendType
     DEF TypeOK, FaultKinds, AttemptOk, AttemptFailed, Retry, GiveUp,
         PublishDone, RetryTimerFails, Answer, RemoteAccept,
         RemoteAcceptUnusable, RemoteRefuse, ErrorStored, ErrorRefused
<1>5. BrokerTypeOK'
  BY <1>1
     DEF TypeOK, BrokerTypeOK, brokerVars, AttemptOk, AttemptFailed, Retry,
         GiveUp, PublishDone, RetryTimerFails, Answer, RemoteAccept,
         RemoteAcceptUnusable, RemoteRefuse, ErrorStored, ErrorRefused
<1> QED BY <1>2, <1>3, <1>4, <1>5 DEF TypeOK

\* The end of a handling keeps the types.
LEMMA HandlingEndsType ==
  ASSUME TypeInv, NEW c \in Consumers,
         HandlerTimeout(c) \/ Ack(c) \/ Nack(c) \/ TaskEnds(c)
  PROVE  TypeInv'
<1> USE DEF TypeInv
<1>1. CASE HandlerTimeout(c)
  <2>1. /\ phase[c] \in Busy /\ cur[c] \in Deliveries /\ cur[c].msg \in Msgs
        /\ c[1] \in Instances
    BY <1>1, DeliveryFields DEF HandlerTimeout, BusyHolds, Busy, Consumers
  <2>2. 0 \in 0..MaxAttempts /\ "failed" \in Phases /\ "none" \in ReqStates
    BY NotificatorAssumption DEF Phases, ReqStates
  <2>3. /\ phase' \in [Consumers -> Phases]
        /\ cur' \in [Consumers -> Deliveries \cup {None}]
        /\ tries' \in [Consumers -> 0..MaxAttempts]
        /\ req' \in [Consumers -> ReqStates]
        /\ BusyHolds'
    BY <1>1, <2>1, <2>2, SetTaskType DEF HandlerTimeout
  <2>4. budget' \in [FaultKinds -> Nat]
    BY <1>1, SpendType DEF HandlerTimeout, FaultKinds
  <2>5. /\ stray' \in [Msgs -> Nat] /\ late' \subseteq Instances \X Msgs
        /\ hits' \in [Msgs -> Nat]
    <3>1. stray' = WithStrays({c}) /\ hits' = Hit({cur[c].msg})
      BY <1>1 DEF HandlerTimeout
    <3>2. stray' \in [Msgs -> Nat] /\ hits' \in [Msgs -> Nat]
      BY <3>1, StraysGrow, HitType DEF TypeOK
    <3>3. late' \subseteq Instances \X Msgs
      BY <1>1, <2>1 DEF HandlerTimeout, TypeOK
    <3> QED BY <3>2, <3>3
  <2> QED BY <1>1, <2>3, <2>4, <2>5
          DEF HandlerTimeout, TypeOK, BrokerTypeOK, brokerVars
<1>2. CASE Ack(c) \/ Nack(c)
  <2>1. cur[c] \in Deliveries /\ cur[c].tag \in Tags
    BY <1>2, DeliveryFields DEF Ack, Nack, BusyHolds, Busy
  <2>2. PICK f \in [kind : {"ack", "nack"}, tag : Tags \cup {0}] : SendFrame(c, f)
    <3>1. AckFrame(cur[c].tag) \in [kind : {"ack", "nack"}, tag : Tags \cup {0}]
      BY <2>1 DEF AckFrame
    <3>2. NackFrame \in [kind : {"ack", "nack"}, tag : Tags \cup {0}]
      BY DEF NackFrame
    <3> QED BY <1>2, <3>1, <3>2 DEF Ack, Nack
  <2>3. frames' \in [Consumers -> Seq([kind : {"ack", "nack"}, tag : Tags \cup {0}])]
    BY <2>2, SendFrameType DEF TypeOK
  <2>4. SetTask(c, "idle", None, 0, "none")
    BY <1>2 DEF Ack, Nack, NextPoll
  <2>5. /\ 0 \in 0..MaxAttempts /\ "idle" \in Phases /\ "none" \in ReqStates
        /\ "idle" \notin Busy
    BY NotificatorAssumption DEF Phases, ReqStates, Busy, Handling
  <2>6. /\ phase' \in [Consumers -> Phases]
        /\ cur' \in [Consumers -> Deliveries \cup {None}]
        /\ tries' \in [Consumers -> 0..MaxAttempts]
        /\ req' \in [Consumers -> ReqStates]
        /\ BusyHolds'
    BY <2>4, <2>5, SetTaskType
  <2> QED BY <1>2, <2>3, <2>6
          DEF Ack, Nack, TypeOK, BrokerTypeOK, historyVars
<1>3. CASE TaskEnds(c)
  <2>1. /\ 0 \in 0..MaxAttempts /\ "ended" \in Phases /\ "none" \in ReqStates
        /\ "ended" \notin Busy
    BY NotificatorAssumption DEF Phases, ReqStates, Busy, Handling
  <2>2. /\ phase' \in [Consumers -> Phases]
        /\ cur' \in [Consumers -> Deliveries \cup {None}]
        /\ tries' \in [Consumers -> 0..MaxAttempts]
        /\ req' \in [Consumers -> ReqStates]
        /\ BusyHolds'
    BY <1>3, <2>1, SetTaskType DEF TaskEnds, EndTask
  <2> QED BY <1>3, <2>2
          DEF TaskEnds, TypeOK, BrokerTypeOK, brokerVars, historyVars
<1> QED BY <1>1, <1>2, <1>3

\* What arrives after its handler was dropped keeps the types.
LEMMA ArrivesLateType ==
  ASSUME TypeInv,
         \/ \E m \in Msgs : StrayAccept(m)
         \/ \E i \in Instances, m \in Msgs : LateStored(i, m)
  PROVE  TypeInv'
<1> USE DEF TypeInv, TypeOK, BrokerTypeOK, BusyHolds, taskVars, brokerVars
<1>1. ASSUME NEW m \in Msgs, StrayAccept(m) PROVE TypeInv'
  <2>1. stray' \in [Msgs -> Nat]
    BY <1>1 DEF StrayAccept
  <2> QED BY <1>1, <2>1, CountedType DEF StrayAccept
<1>2. ASSUME NEW i \in Instances, NEW m \in Msgs, LateStored(i, m) PROVE TypeInv'
  BY <1>2 DEF LateStored
<1> QED BY <1>1, <1>2

-----------------------------------------------------------------------------
(* Steps of a process, a connection, the broker.                           *)

\* Closing the channels of some instances keeps the broker's types.
LEMMA CloseChannelsType ==
  ASSUME BrokerTypeOK, NEW I \in SUBSET Instances, CloseChannels(I)
  PROVE  /\ ready' \subseteq Msgs
         /\ outstanding' \in [Consumers -> SUBSET Deliveries]
         /\ frames' \in
              [Consumers -> Seq([kind : {"ack", "nack"}, tag : Tags \cup {0}])]
<1>1. ready' \subseteq Msgs
  BY HeldByType DEF CloseChannels, BrokerTypeOK
<1>2. outstanding' \in [Consumers -> SUBSET Deliveries]
  BY DEF CloseChannels, BrokerTypeOK
<1> DEFINE F == [kind : {"ack", "nack"}, tag : Tags \cup {0}]
<1>3. frames \in [Consumers -> Seq(F)]
  BY DEF BrokerTypeOK
<1> HIDE DEF F
<1>4. frames' \in [Consumers -> Seq(F)]
  BY <1>3 DEF CloseChannels
<1> QED BY <1>1, <1>2, <1>4 DEF F

\* Starting, ending and disconnecting processes keeps the types.
LEMMA ProcessStepType ==
  ASSUME TypeInv,
         \/ \E i \in Instances : Start(i) \/ Crash(i) \/ ConnectionLost(i)
         \/ BrokerRestart
  PROVE  TypeInv'
<1> USE DEF TypeInv
<1>1. ASSUME NEW i \in Instances, Start(i) PROVE TypeInv'
  <2>1. /\ phase' \in [Consumers -> Phases] /\ BusyHolds'
        /\ link' \in [Instances -> {"stopped", "connected", "broken"}]
    BY <1>1 DEF Start, TypeOK, BrokerTypeOK, BusyHolds, Phases, Busy, Handling
  <2> QED BY <1>1, <2>1 DEF Start, TypeOK, BrokerTypeOK, historyVars
<1>2. ASSUME NEW i \in Instances, Crash(i) PROVE TypeInv'
  <2> DEFINE gone == ChannelsOf({i})
  <2>1. /\ ready' \subseteq Msgs
        /\ outstanding' \in [Consumers -> SUBSET Deliveries]
        /\ frames' \in
             [Consumers -> Seq([kind : {"ack", "nack"}, tag : Tags \cup {0}])]
        /\ HeldBy({i}) \subseteq Msgs
    BY <1>2, CloseChannelsType, HeldByType DEF Crash, TypeOK
  <2>2. budget' \in [FaultKinds -> Nat]
    BY <1>2, SpendType DEF Crash, FaultKinds
  <2>3. inbox' \in [Consumers -> Seq(Deliveries)]
    <3>1. inbox' = [c \in Consumers |-> IF c \in gone THEN <<>> ELSE inbox[c]]
      BY <1>2 DEF Crash
    <3> QED BY <3>1 DEF TypeOK, BrokerTypeOK
  <2>4. /\ phase' \in [Consumers -> Phases] /\ BusyHolds'
        /\ cur' \in [Consumers -> Deliveries \cup {None}]
        /\ tries' \in [Consumers -> 0..MaxAttempts]
        /\ req' \in [Consumers -> ReqStates]
    <3>1. 0 \in 0..MaxAttempts
      BY NotificatorAssumption
    <3> QED BY <1>2, <3>1
            DEF Crash, TypeOK, BusyHolds, Phases, ReqStates, Busy, Handling
  <2>5. /\ stray' \in [Msgs -> Nat] /\ late' \subseteq Instances \X Msgs
        /\ hits' \in [Msgs -> Nat]
    BY <1>2, StraysGrow, HitType DEF Crash, TypeOK
  <2> QED BY <1>2, <2>1, <2>2, <2>3, <2>4, <2>5
          DEF Crash, TypeOK, BrokerTypeOK
<1>3. ASSUME NEW i \in Instances, ConnectionLost(i) PROVE TypeInv'
  <2>1. /\ ready' \subseteq Msgs
        /\ outstanding' \in [Consumers -> SUBSET Deliveries]
        /\ frames' \in
             [Consumers -> Seq([kind : {"ack", "nack"}, tag : Tags \cup {0}])]
        /\ HeldBy({i}) \subseteq Msgs
    BY <1>3, CloseChannelsType, HeldByType DEF ConnectionLost, TypeOK
  <2>2. budget' \in [FaultKinds -> Nat]
    BY <1>3, SpendType DEF ConnectionLost, FaultKinds
  <2>3. hits' \in [Msgs -> Nat]
    BY <1>3, HitType DEF ConnectionLost, TypeOK
  <2> QED BY <1>3, <2>1, <2>2, <2>3
          DEF ConnectionLost, TypeOK, BrokerTypeOK, BusyHolds, taskVars
<1>4. CASE BrokerRestart
  <2>1. /\ ready' \subseteq Msgs
        /\ outstanding' \in [Consumers -> SUBSET Deliveries]
        /\ frames' \in
             [Consumers -> Seq([kind : {"ack", "nack"}, tag : Tags \cup {0}])]
        /\ HeldBy(Instances) \subseteq Msgs
    BY <1>4, CloseChannelsType, HeldByType DEF BrokerRestart, TypeOK
  <2>2. budget' \in [FaultKinds -> Nat]
    BY <1>4, SpendType DEF BrokerRestart, FaultKinds
  <2>3. hits' \in [Msgs -> Nat]
    BY <1>4, HitType DEF BrokerRestart, TypeOK
  <2> QED BY <1>4, <2>1, <2>2, <2>3
          DEF BrokerRestart, TypeOK, BrokerTypeOK, BusyHolds, taskVars
<1> QED BY <1>1, <1>2, <1>3, <1>4

\* Every step keeps the types.
LEMMA TypeStep == TypeInv /\ [Next]_vars => TypeInv'
<1> SUFFICES ASSUME TypeInv, [Next]_vars PROVE TypeInv'
  OBVIOUS
<1>1. CASE UNCHANGED vars
  BY <1>1 DEF vars, brokerVars, taskVars, historyVars, TypeInv, TypeOK,
              BrokerTypeOK, BusyHolds
<1>2. CASE Next
  BY <1>2, BrokerStepType, TakeType, HandlerStepType, HandlingEndsType,
     ArrivesLateType, ProcessStepType
     DEF Next, TaskStep, TaskFault
<1> QED BY <1>1, <1>2

(***************************************************************************)
(* Every reachable state is well typed, and a task that handles something  *)
(* has a delivery (lib.rs and services/rabbit.rs, all steps).              *)
(***************************************************************************)
THEOREM TypeInvariant == Spec => []TypeInv
<1> QED BY InitType, TypeStep, PTL DEF Spec

\* Type correctness, as the runs check it.
THEOREM TypeCorrect == Spec => []TypeOK
<1>1. TypeInv => TypeOK
  BY DEF TypeInv
<1> QED BY <1>1, TypeInvariant, PTL

-----------------------------------------------------------------------------
(* What becomes of a notification.                                         *)

Local(c) == ChannelInv(c) /\ TaskInv(c) /\ ProvenanceInv(c)

\* Nothing about task c and its channel changes.
Same(c) ==
  UNCHANGED <<outstanding[c], inbox[c], frames[c], cur[c], phase[c], req[c],
              link[c[1]]>>

\* What is known about the fate of notifications only grows.
FateGrows ==
  /\ published \subseteq published'
  /\ \A m \in Msgs : accepts[m] > 0 => accepts'[m] > 0
  /\ \A m \in Msgs : Settled(m) => Settled(m)'

\* A notification the broker still owns.
Owned(m) == m \in ready \/ \E c \in Consumers : \E d \in outstanding[c] : d.msg = m

-----------------------------------------------------------------------------
\* Pending is what waits or is outstanding on some channel.
LEMMA PendingIsOwned ==
  \A m : m \in Pending <=> Owned(m)
<1>1. ChannelsOf(Instances) = Consumers
  BY DEF ChannelsOf, Consumers
<1> QED BY <1>1 DEF Pending, HeldBy, MsgsOf, Owned

\* NoSilentLoss in terms of owners.
LEMMA LossByOwner ==
  NoSilentLoss <=> \A m \in published : Owned(m) \/ Settled(m)
BY PendingIsOwned DEF NoSilentLoss, Discharged

\* The same in the next state.
LEMMA LossByOwnerNext ==
  NoSilentLoss' <=> \A m \in published' : Owned(m)' \/ Settled(m)'
<1>1. ChannelsOf(Instances) = Consumers
  BY DEF ChannelsOf, Consumers
<1>2. \A m : m \in Pending' <=> Owned(m)'
  BY <1>1 DEF Pending, HeldBy, MsgsOf, Owned
<1> QED BY <1>2 DEF NoSilentLoss, Discharged

\* A settled notification stays settled when the facts it rests on grow.
LEMMA FateOfFacts ==
  ASSUME published \subseteq published',
         \A m \in Msgs : accepts[m] > 0 => accepts'[m] > 0,
         \A m \in Msgs : m \in errorQueue => m \in errorQueue' \cup excused',
         excused \subseteq excused'
  PROVE  FateGrows
BY DEF FateGrows, Settled, IsPush

\* A task that nothing happens to keeps its invariants.
LEMMA LocalFrame ==
  ASSUME TypeInv, NEW c \in Consumers, Local(c), Same(c), FateGrows
  PROVE  Local(c)'
<1>1. ChannelInv(c)'
  <2>1. Connected(c)' => NothingHeld(c)' \/ OneHeld(c)'
    <3> SUFFICES ASSUME Connected(c)' PROVE NothingHeld(c)' \/ OneHeld(c)'
      OBVIOUS
    <3>1. NothingHeld(c) \/ OneHeld(c)
      BY DEF Same, Connected, Local, ChannelInv
    <3>2. CASE NothingHeld(c)
      BY <3>2 DEF Same, NothingHeld
    <3>3. CASE OneHeld(c)
      <4> PICK d \in Deliveries :
            /\ outstanding[c] = {d}
            /\ Unpolled(c, d) \/ InHand(c, d) \/ SettledByFrame(c, d)
        BY <3>3 DEF OneHeld
      <4>1. Settled(d.msg) => Settled(d.msg)'
        BY DeliveryFields DEF FateGrows
      <4>2. Unpolled(c, d)' \/ InHand(c, d)' \/ SettledByFrame(c, d)'
        BY <4>1 DEF Same, Unpolled, InHand, SettledByFrame
      <4> QED BY <4>2 DEF OneHeld, Same
    <3> QED BY <3>1, <3>2, <3>3
  <2> QED BY <2>1 DEF Local, ChannelInv, Same, Connected
<1>2. TaskInv(c)'
  <2>1. phase[c] \in Busy => cur[c].msg \in Msgs
    BY DeliveryFields DEF TypeInv, BusyHolds
  <2> QED BY <2>1
          DEF Local, TaskInv, Same, Connected, FateGrows, Busy, Handling
<1>3. ProvenanceInv(c)'
  BY DEF Local, ProvenanceInv, Same, FateGrows
<1> QED BY <1>1, <1>2, <1>3 DEF Local

\* A step that leaves the work queues and the outstanding deliveries alone
\* keeps the owners.
LEMMA OwnersFrame ==
  ASSUME TypeInv, OwnershipInv, NoSilentLoss, FateGrows,
         UNCHANGED <<published, ready, outstanding>>,
         Strays' \subseteq published, \A p \in late' : p[2] \in published
  PROVE  OwnershipInv' /\ NoSilentLoss'
<1>1. OwnershipInv'
  BY DEF OwnershipInv
<1>2. NoSilentLoss'
  <2>1. published \subseteq Msgs
    BY DEF TypeInv, TypeOK, BrokerTypeOK
  <2> QED BY <2>1, LossByOwner, LossByOwnerNext DEF Owned, FateGrows
<1> QED BY <1>1, <1>2

\* SafetyInv, task by task.
LEMMA SafetyByTask ==
  SafetyInv <=> (\A c \in Consumers : Local(c)) /\ OwnershipInv /\ NoSilentLoss
BY DEF SafetyInv, Local

\* The same in the next state.
LEMMA SafetyByTaskNext ==
  SafetyInv' <=> (\A c \in Consumers : Local(c)') /\ OwnershipInv' /\ NoSilentLoss'
BY DEF SafetyInv, Local

\* Initially nobody holds anything.
LEMMA InitSafety == Init => SafetyInv
<1> SUFFICES ASSUME Init PROVE SafetyInv
  OBVIOUS
<1>1. ASSUME NEW c \in Consumers PROVE Local(c)
  <2>1. c[1] \in Instances
    BY DEF Consumers
  <2>2. phase[c] = "ended" /\ cur[c] = None /\ inbox[c] = <<>>
    BY DEF Init, BrokerInit
  <2>3. link[c[1]] = "stopped" /\ outstanding[c] = {} /\ frames[c] = <<>>
    BY <2>1 DEF Init, BrokerInit
  <2>4. ChannelInv(c)
    BY <2>2, <2>3 DEF ChannelInv, Connected
  <2>5. TaskInv(c)
    BY <2>2, <2>3 DEF TaskInv, Busy, Handling, Connected
  <2>6. ProvenanceInv(c)
    BY <2>2, <2>3, NotificatorAssumption DEF ProvenanceInv
  <2> QED BY <2>4, <2>5, <2>6 DEF Local
<1>2. OwnershipInv
  BY DEF Init, BrokerInit, OwnershipInv, Strays
<1>3. NoSilentLoss
  BY DEF Init, BrokerInit, NoSilentLoss, Discharged
<1> QED BY <1>1, <1>2, <1>3, SafetyByTask

-----------------------------------------------------------------------------
(* Steps inside a handler.                                                 *)

\* All tasks but c are left alone.
OthersSame(c) == \A d \in Consumers \ {c} : Same(d)

\* A step of one task: its own invariants and the frame of the others.
LEMMA LocalsOfStep ==
  ASSUME TypeInv, SafetyInv, FateGrows, NEW c \in Consumers,
         OthersSame(c), Local(c)'
  PROVE  \A d \in Consumers : Local(d)'
BY LocalFrame, SafetyByTask DEF OthersSame

\* A task goes on with the delivery it has.
LEMMA LocalGoesOn ==
  ASSUME TypeInv, NEW c \in Consumers, Local(c), FateGrows,
         UNCHANGED <<outstanding[c], inbox[c], frames[c], cur[c], link[c[1]]>>,
         phase[c] \in Busy, phase'[c] \in Busy,
         (phase'[c] = "sending" /\ req'[c] = "ok") => accepts'[cur[c].msg] > 0,
         (Connected(c) /\ phase'[c] = "publishing" /\ req'[c] = "ok") =>
           Settled(cur[c].msg)',
         (Connected(c) /\ phase'[c] = "acking") => Settled(cur[c].msg)'
  PROVE  Local(c)'
<1>1. cur[c] # None /\ cur[c] \in Deliveries
  BY DEF Local, TaskInv, TypeInv, BusyHolds
<1>2. ChannelInv(c)'
  <2>1. ASSUME OneHeld(c) PROVE OneHeld(c)'
    <3> PICK d \in Deliveries : outstanding[c] = {d} /\ InHand(c, d)
      BY <1>1, <2>1 DEF OneHeld, Unpolled, SettledByFrame
    <3> QED BY DEF OneHeld, InHand
  <2>2. ~NothingHeld(c)
    BY <1>1 DEF NothingHeld
  <2> QED BY <2>1, <2>2, <1>1 DEF Local, ChannelInv, Connected
<1>3. TaskInv(c)'
  BY <1>1 DEF TaskInv, Connected
<1>4. ProvenanceInv(c)'
  BY DEF Local, ProvenanceInv, FateGrows
<1> QED BY <1>2, <1>3, <1>4 DEF Local

\* The steps of the retry loop, the error publication, their answers and the
\* Timeout keep the invariant.
LEMMA HandlerStepSafety ==
  ASSUME TypeInv, TypeInv', SafetyInv, NEW c \in Consumers,
         \/ AttemptOk(c) \/ AttemptFailed(c) \/ Retry(c) \/ GiveUp(c)
         \/ PublishDone(c) \/ RetryTimerFails(c) \/ Answer(c)
         \/ HandlerTimeout(c)
  PROVE  SafetyInv'
<1> DEFINE m == cur[c].msg
<1>1. /\ phase[c] \in Busy /\ cur[c] \in Deliveries /\ m \in Msgs
      /\ m \in published
      /\ Local(c) /\ OwnershipInv /\ NoSilentLoss
  <2>1. phase[c] \in Busy
    BY DEF AttemptOk, AttemptFailed, Retry, GiveUp, PublishDone,
           RetryTimerFails, Answer, RemoteAccept, RemoteAcceptUnusable,
           RemoteRefuse, ErrorStored, ErrorRefused, HandlerTimeout, Busy, Handling
  <2>2. Local(c) /\ OwnershipInv /\ NoSilentLoss
    BY SafetyByTask
  <2>3. cur[c] \in Deliveries /\ m \in Msgs
    BY <2>1, DeliveryFields DEF TypeInv, BusyHolds
  <2> QED BY <2>1, <2>2, <2>3 DEF Local, ProvenanceInv
<1>2. UNCHANGED <<published, ready, outstanding, inbox, frames, link, cur>>
  <2>1. \A p, d, r : \A n : SetTask(c, p, cur[c], n, r) => cur' = cur
    BY DEF SetTask, TypeInv, TypeOK
  <2> QED BY <2>1
     DEF brokerVars, Move, AttemptOk, AttemptFailed, Retry, GiveUp,
         PublishDone, RetryTimerFails, Answer, RemoteAccept,
         RemoteAcceptUnusable, RemoteRefuse, ErrorStored, ErrorRefused,
         HandlerTimeout
<1>3. /\ phase'[c] \in Busy
      /\ \A d \in Consumers \ {c} : phase'[d] = phase[d] /\ req'[d] = req[d]
  BY DEF TypeInv, TypeOK, SetTask, Busy, Handling, Move, AttemptOk,
         AttemptFailed, Retry, GiveUp, PublishDone, RetryTimerFails, Answer,
         RemoteAccept, RemoteAcceptUnusable, RemoteRefuse, ErrorStored,
         ErrorRefused, HandlerTimeout
<1>4. FateGrows
  <2>1. /\ \A k \in Msgs : accepts[k] > 0 => accepts'[k] > 0
        /\ errorQueue \subseteq errorQueue' /\ excused \subseteq excused'
    BY <1>1, CountedType
       DEF TypeInv, TypeOK, brokerVars, historyVars, AttemptOk, AttemptFailed,
           Retry, GiveUp, PublishDone, RetryTimerFails, Answer, RemoteAccept,
           RemoteAcceptUnusable, RemoteRefuse, ErrorStored, ErrorRefused,
           HandlerTimeout
  <2> QED BY <1>2, <2>1, FateOfFacts
<1>5. Strays' \subseteq published /\ \A p \in late' : p[2] \in published
  <2>1. stray' = stray \/ stray' = WithStrays({c})
    BY DEF historyVars, AttemptOk, AttemptFailed, Retry, GiveUp, PublishDone,
           RetryTimerFails, Answer, RemoteAccept, RemoteAcceptUnusable,
           RemoteRefuse, ErrorStored, ErrorRefused, HandlerTimeout
  <2>2. \A k \in Strays' : k \in Strays \/ k \in Abandoned(c)
    BY <2>1, StraysGrow, StraysUnchanged DEF TypeInv, TypeOK
  <2>3. \A p \in late' : p \in late \/ p[2] = m
    BY DEF historyVars, AttemptOk, AttemptFailed, Retry, GiveUp, PublishDone,
           RetryTimerFails, Answer, RemoteAccept, RemoteAcceptUnusable,
           RemoteRefuse, ErrorStored, ErrorRefused, HandlerTimeout
  <2> QED BY <1>1, <2>2, <2>3 DEF OwnershipInv, Abandoned
<1>6. OwnershipInv' /\ NoSilentLoss'
  BY <1>1, <1>2, <1>4, <1>5, OwnersFrame
<1>7. /\ (phase'[c] = "sending" /\ req'[c] = "ok") => accepts'[m] > 0
      /\ (Connected(c) /\ phase'[c] = "publishing" /\ req'[c] = "ok") => Settled(m)'
      /\ (Connected(c) /\ phase'[c] = "acking") => Settled(m)'
  <2> USE <1>1 DEF Move, SetTask, TypeInv, TypeOK
  <2>1. ASSUME RemoteAccept(c) PROVE accepts'[m] > 0 /\ phase'[c] = "sending"
    BY <2>1, CountedType DEF RemoteAccept
  <2>2. ASSUME ErrorStored(c) PROVE Settled(m)' /\ phase'[c] = "publishing"
    BY <2>2, <1>2 DEF ErrorStored, Settled
  <2>3. ASSUME AttemptOk(c) PROVE Settled(m)' /\ phase'[c] = "acking"
    <3>1. accepts[m] > 0
      BY <2>3 DEF AttemptOk, Local, TaskInv
    <3>2. Settled(m)
      BY <3>1 DEF Settled
    <3> QED BY <2>3, <3>2, <1>4 DEF AttemptOk, FateGrows
  <2>4. ASSUME PublishDone(c), Connected(c)
        PROVE  Settled(m)' /\ phase'[c] = "acking"
    <3>1. req[c] = "ok" => Settled(m)
      BY <2>4 DEF PublishDone, Local, TaskInv
    <3>2. req[c] = "refused" => Settled(m)'
      BY <2>4, <1>2 DEF PublishDone, Settled
    <3> QED BY <2>4, <3>1, <3>2, <1>4 DEF PublishDone, FateGrows
  <2>5. ASSUME RetryTimerFails(c), Connected(c)
        PROVE  Settled(m)' /\ phase'[c] = "acking"
    BY <2>5, <1>2 DEF RetryTimerFails, Settled
  <2>6. ASSUME PublishDone(c) \/ RetryTimerFails(c) PROVE phase'[c] = "acking"
    BY <2>6 DEF PublishDone, RetryTimerFails
  <2>7. ASSUME \/ AttemptFailed(c) \/ Retry(c) \/ GiveUp(c)
               \/ RemoteAcceptUnusable(c) \/ RemoteRefuse(c) \/ ErrorRefused(c)
               \/ HandlerTimeout(c)
        PROVE  phase'[c] # "acking" /\ req'[c] # "ok"
    BY <2>7 DEF AttemptFailed, Retry, GiveUp, RemoteAcceptUnusable,
                RemoteRefuse, ErrorRefused, HandlerTimeout
  <2> QED BY <2>1, <2>2, <2>3, <2>4, <2>5, <2>6, <2>7 DEF Answer
<1>8. Local(c)'
  BY <1>1, <1>2, <1>3, <1>4, <1>7, LocalGoesOn
<1>9. OthersSame(c)
  BY <1>2, <1>3 DEF OthersSame, Same
<1> QED BY <1>4, <1>6, <1>8, <1>9, LocalsOfStep, SafetyByTaskNext

-----------------------------------------------------------------------------
(* Steps of the broker.                                                    *)

\* Sequences of one element.
LEMMA OneElement ==
  ASSUME NEW x
  PROVE  /\ Append(<<>>, x) = <<x>>
         /\ Head(<<x>>) = x /\ Tail(<<x>>) = <<>> /\ <<x>> # <<>>
         /\ \A k \in DOMAIN <<x>> : <<x>>[k] = x
OBVIOUS

\* Publishing adds a notification nobody holds yet.
LEMMA PublishSafety ==
  ASSUME TypeInv, SafetyInv, NEW m \in Msgs, Publish(m)
  PROVE  SafetyInv'
<1>1. /\ m \notin published /\ published' = published \cup {m}
      /\ ready' = ready \cup {m}
      /\ UNCHANGED <<outstanding, inbox, frames, link, errorQueue, taskVars,
                     historyVars>>
  BY DEF Publish, Enqueue
<1>2. FateGrows
  BY <1>1, FateOfFacts DEF historyVars
<1>3. \A c \in Consumers : Local(c)'
  BY <1>1, <1>2, LocalFrame, SafetyByTask DEF Same, taskVars
<1>4. OwnershipInv'
  <2>1. \A c \in Consumers : \A x \in outstanding[c] : x.msg \in published
    BY SafetyByTask DEF Local, ProvenanceInv, TypeInv, TypeOK, BrokerTypeOK
  <2> QED BY <1>1, <2>1, SafetyByTask, StraysUnchanged DEF OwnershipInv, historyVars
<1>5. NoSilentLoss'
  <2>1. \A k \in published : Owned(k) \/ Settled(k)
    BY SafetyByTask, LossByOwner
  <2>2. \A k \in published : k \in Msgs
    BY DEF TypeInv, TypeOK, BrokerTypeOK
  <2> QED BY <1>1, <1>2, <2>1, <2>2, LossByOwnerNext DEF Owned, FateGrows
<1> QED BY <1>3, <1>4, <1>5, SafetyByTaskNext

\* A delivery goes to a channel that holds nothing: Prefetch is 1.
LEMMA DeliverSafety ==
  ASSUME TypeInv, SafetyInv, NEW c \in Consumers, BrokerDeliver(c)
  PROVE  SafetyInv'
<1>1. PICK m \in ready, t \in Tags :
        /\ QueueOf[m] = c[2]
        /\ ready' = ready \ {m}
        /\ outstanding' = [outstanding EXCEPT ![c] = @ \cup {[tag |-> t, msg |-> m]}]
        /\ inbox' = [inbox EXCEPT ![c] = Append(@, [tag |-> t, msg |-> m])]
  BY DEF BrokerDeliver, Deliver, Subscribed, IsHead
<1>2. /\ UNCHANGED <<published, frames, link, errorQueue, taskVars, historyVars>>
      /\ Connected(c)
      /\ Cardinality(outstanding[c]) < 1
  BY DEF BrokerDeliver, Deliver, Prefetch
<1> DEFINE d == [tag |-> t, msg |-> m]
<1>3. d \in Deliveries /\ d.msg = m /\ m \in published /\ m \in Msgs
  BY SafetyByTask DEF OwnershipInv, Deliveries, TypeInv, TypeOK, BrokerTypeOK
<1>4. NothingHeld(c)
  <2>1. ASSUME OneHeld(c) PROVE FALSE
    <3> PICK e \in Deliveries : outstanding[c] = {e}
      BY <2>1 DEF OneHeld
    <3> QED BY <1>2, FS_Singleton
  <2> QED BY <1>2, <2>1, SafetyByTask DEF Local, ChannelInv
<1>5. FateGrows
  BY <1>2, FateOfFacts DEF historyVars
<1>6. /\ outstanding'[c] = {d} /\ inbox'[c] = <<d>>
      /\ \A e \in Consumers \ {c} :
           outstanding'[e] = outstanding[e] /\ inbox'[e] = inbox[e]
  BY <1>1, <1>4, OneElement DEF NothingHeld, TypeInv, TypeOK, BrokerTypeOK
<1> HIDE DEF d
<1>7. Local(c)'
  <2>1. ChannelInv(c)'
    <3>1. Unpolled(c, d)'
      BY <1>2, <1>4, <1>6 DEF Unpolled, NothingHeld, taskVars
    <3>2. OneHeld(c)'
      BY <1>3, <1>6, <3>1 DEF OneHeld
    <3> QED BY <1>2, <3>2 DEF ChannelInv, Connected
  <2>2. TaskInv(c)'
    BY <1>2, <1>4, SafetyByTask
       DEF Local, TaskInv, NothingHeld, taskVars, Busy, Handling
  <2>3. ProvenanceInv(c)'
    <3> SUFFICES ASSUME NEW e \in Deliveries,
                        \/ e \in outstanding'[c] \/ cur'[c] = e
                        \/ \E k \in DOMAIN inbox'[c] : inbox'[c][k] = e
                 PROVE  e.msg \in published' /\ QueueOf[e.msg] = c[2]
      BY DEF ProvenanceInv
    <3>1. e = d
      BY <1>2, <1>4, <1>6, OneElement, NotificatorAssumption
         DEF NothingHeld, taskVars
    <3> QED BY <1>1, <1>2, <1>3, <3>1
  <2> QED BY <2>1, <2>2, <2>3 DEF Local
<1>8. OthersSame(c)
  BY <1>2, <1>6 DEF OthersSame, Same, taskVars
<1>9. OwnershipInv'
  BY <1>1, <1>2, <1>3, <1>6, SafetyByTask, StraysUnchanged DEF OwnershipInv, historyVars
<1>10. NoSilentLoss'
  <2>1. ASSUME NEW k \in published, Owned(k) PROVE Owned(k)'
    BY <1>1, <1>3, <1>4, <1>6, <2>1 DEF Owned, NothingHeld
  <2>2. \A k \in published : k \in Msgs
    BY DEF TypeInv, TypeOK, BrokerTypeOK
  <2> QED BY <1>2, <1>5, <2>1, <2>2, SafetyByTask, LossByOwner, LossByOwnerNext
          DEF FateGrows
<1> QED BY <1>5, <1>7, <1>8, <1>9, <1>10, LocalsOfStep, SafetyByTaskNext

\* What the broker finds when it handles a frame: one outstanding delivery,
\* covered by the frame, which no task has any more.
LEMMA FrameFacts ==
  ASSUME TypeInv, SafetyInv, NEW c \in Consumers, frames[c] # <<>>
  PROVE  /\ Connected(c)
         /\ inbox[c] = <<>> /\ cur[c] = None /\ Tail(frames[c]) = <<>>
         /\ \E d \in Deliveries :
              /\ outstanding[c] = {d} /\ Covered(c, Head(frames[c])) = {d}
              /\ Head(frames[c]).kind = "ack" => Settled(d.msg)
<1>1. Connected(c) /\ OneHeld(c)
  BY SafetyByTask DEF Local, ChannelInv, NothingHeld
<1>2. PICK d \in Deliveries : outstanding[c] = {d} /\ SettledByFrame(c, d)
  BY <1>1 DEF OneHeld, Unpolled, InHand
<1>3. CASE frames[c] = <<NackFrame>>
  <2>1. Head(frames[c]) = NackFrame /\ Tail(frames[c]) = <<>>
    BY <1>3, OneElement
  <2> QED BY <1>1, <1>2, <2>1 DEF SettledByFrame, NackFrame, Covered
<1>4. CASE frames[c] = <<AckFrame(d.tag)>> /\ Settled(d.msg)
  <2>1. Head(frames[c]) = AckFrame(d.tag) /\ Tail(frames[c]) = <<>>
    BY <1>4, OneElement
  <2> QED BY <1>1, <1>2, <1>4, <2>1 DEF SettledByFrame, AckFrame, Covered
<1> QED BY <1>2, <1>3, <1>4 DEF SettledByFrame

\* The broker handles an ack or a nack: the channel is empty again, and what
\* it held is settled or waits in its queue.
LEMMA SettleSafety ==
  ASSUME TypeInv, SafetyInv, NEW c \in Consumers, BrokerAck(c) \/ BrokerNack(c)
  PROVE  SafetyInv'
<1>1. /\ frames[c] # <<>>
      /\ frames' = [frames EXCEPT ![c] = Tail(@)]
      /\ outstanding' =
           [outstanding EXCEPT ![c] = @ \ Covered(c, Head(frames[c]))]
      /\ UNCHANGED <<published, inbox, link, errorQueue, taskVars, historyVars>>
  BY DEF BrokerAck, BrokerNack, ApplyAck, ApplyNack
<1>2. PICK d \in Deliveries :
        /\ outstanding[c] = {d} /\ Covered(c, Head(frames[c])) = {d}
        /\ Head(frames[c]).kind = "ack" => Settled(d.msg)
  BY <1>1, FrameFacts
<1>3. Connected(c) /\ inbox[c] = <<>> /\ cur[c] = None /\ Tail(frames[c]) = <<>>
  BY <1>1, FrameFacts
<1>4. /\ outstanding'[c] = {} /\ frames'[c] = <<>>
      /\ \A e \in Consumers \ {c} :
           outstanding'[e] = outstanding[e] /\ frames'[e] = frames[e]
  BY <1>1, <1>2, <1>3 DEF TypeInv, TypeOK, BrokerTypeOK
<1>5. \/ ready' = ready /\ Settled(d.msg)
      \/ ready' = ready \cup {d.msg}
  BY <1>2 DEF BrokerAck, BrokerNack, ApplyAck, ApplyNack, MsgsOf
<1>6. FateGrows
  BY <1>1, FateOfFacts DEF historyVars
<1>7. Local(c)'
  <2>1. ChannelInv(c)'
    BY <1>1, <1>3, <1>4 DEF ChannelInv, Connected, NothingHeld, taskVars
  <2>2. TaskInv(c)'
    BY <1>1, <1>3, SafetyByTask
       DEF Local, TaskInv, taskVars, Busy, Handling
  <2>3. ProvenanceInv(c)'
    BY <1>1, <1>3, <1>4, NotificatorAssumption DEF ProvenanceInv, taskVars
  <2> QED BY <2>1, <2>2, <2>3 DEF Local
<1>8. OthersSame(c)
  BY <1>1, <1>4 DEF OthersSame, Same, taskVars
<1>9. d.msg \in published /\ d.msg \in Msgs
  BY <1>2, SafetyByTask, DeliveryFields DEF Local, ProvenanceInv
<1>10. OwnershipInv'
  BY <1>1, <1>2, <1>4, <1>5, <1>9, SafetyByTask, StraysUnchanged DEF OwnershipInv, historyVars
<1>11. NoSilentLoss'
  <2>1. ASSUME NEW k \in published, Owned(k) PROVE Owned(k)' \/ Settled(k)
    <3>1. CASE k \in ready
      BY <1>5, <3>1 DEF Owned
    <3>2. ASSUME NEW e \in Consumers, NEW x \in outstanding[e], x.msg = k
          PROVE  Owned(k)' \/ Settled(k)
      <4>1. CASE e = c
        BY <1>2, <1>5, <3>2, <4>1 DEF Owned
      <4>2. CASE e # c
        BY <1>4, <3>2, <4>2 DEF Owned
      <4> QED BY <4>1, <4>2
    <3> QED BY <2>1, <3>1, <3>2 DEF Owned
  <2>2. \A k \in published : k \in Msgs
    BY DEF TypeInv, TypeOK, BrokerTypeOK
  <2> QED BY <1>1, <1>6, <2>1, <2>2, SafetyByTask, LossByOwner, LossByOwnerNext
          DEF FateGrows
<1> QED BY <1>6, <1>7, <1>8, <1>10, <1>11, LocalsOfStep, SafetyByTaskNext

-----------------------------------------------------------------------------
(* Steps that begin and end a handling.                                    *)

\* A delivery is polled: it goes from the inbox into the task's hands.
LEMMA TakeSafety ==
  ASSUME TypeInv, SafetyInv, NEW c \in Consumers,
         TakePush(c) \/ TakeMalformed(c) \/ TakeAndSend(c)
  PROVE  SafetyInv'
<1>1. PICK d \in Deliveries, p \in {"acking", "failed", "sending"}, n \in {0, 1},
           r \in {"none", "sent"} :
        /\ Poll(c, d) /\ SetTask(c, p, d, n, r)
        /\ p = "acking" => c[2] = "pushes"
  BY DEF TakePush, TakeMalformed, TakeAndSend
<1>2. /\ phase[c] = "idle" /\ inbox[c] # <<>> /\ d = Head(inbox[c])
      /\ inbox' = [inbox EXCEPT ![c] = Tail(@)]
      /\ UNCHANGED <<published, ready, outstanding, frames, link, errorQueue,
                     historyVars>>
  BY <1>1 DEF Poll
<1>3. /\ phase'[c] = p /\ cur'[c] = d /\ req'[c] = r /\ inbox'[c] = Tail(inbox[c])
      /\ \A e \in Consumers \ {c} :
           /\ phase'[e] = phase[e] /\ cur'[e] = cur[e] /\ req'[e] = req[e]
           /\ inbox'[e] = inbox[e]
  BY <1>1, <1>2 DEF SetTask, TypeInv, TypeOK, BrokerTypeOK
<1>4. FateGrows
  BY <1>2, FateOfFacts DEF historyVars
<1>5. Local(c) /\ OwnershipInv /\ NoSilentLoss /\ cur[c] = None
  BY <1>2, SafetyByTask DEF Local, TaskInv, Busy, Handling
<1>6. inbox[c] \in Seq(Deliveries)
  BY DEF TypeInv, TypeOK, BrokerTypeOK
<1>7. d \in Deliveries /\ d.msg \in published /\ QueueOf[d.msg] = c[2]
  <2>1. 1 \in DOMAIN inbox[c] /\ inbox[c][1] = d
    BY <1>2, <1>6
  <2> QED BY <1>5, <2>1 DEF Local, ProvenanceInv
<1>8. Local(c)'
  <2>1. ChannelInv(c)'
    <3>1. CASE Connected(c)
      <4>1. outstanding[c] = {d} /\ inbox[c] = <<d>> /\ frames[c] = <<>>
        <5>1. OneHeld(c)
          BY <1>2, <1>5, <3>1 DEF Local, ChannelInv, NothingHeld
        <5>2. PICK e \in Deliveries : outstanding[c] = {e} /\ Unpolled(c, e)
          BY <1>2, <5>1 DEF OneHeld, InHand, SettledByFrame
        <5> QED BY <1>2, <5>2, OneElement DEF Unpolled
      <4>2. InHand(c, d)'
        BY <1>2, <1>3, <4>1, OneElement DEF InHand
      <4>3. OneHeld(c)'
        BY <1>2, <4>1, <4>2 DEF OneHeld
      <4> QED BY <1>2, <3>1, <4>3 DEF ChannelInv, Connected
    <3>2. CASE ~Connected(c)
      BY <1>2, <1>5, <3>2 DEF Local, ChannelInv, Connected
    <3> QED BY <3>1, <3>2
  <2>2. TaskInv(c)'
    <3>1. p = "acking" => Settled(d.msg)'
      BY <1>1, <1>7 DEF Settled, IsPush
    <3>2. p \in Busy /\ d # None /\ r # "ok"
      BY NotificatorAssumption DEF Busy, Handling
    <3> QED BY <1>3, <3>1, <3>2 DEF TaskInv
  <2>3. ProvenanceInv(c)'
    <3>1. \A e : (\E k \in DOMAIN inbox'[c] : inbox'[c][k] = e) =>
                  \E k \in DOMAIN inbox[c] : inbox[c][k] = e
      BY <1>2, <1>3, <1>6
    <3> QED BY <1>2, <1>3, <1>5, <1>7, <3>1 DEF Local, ProvenanceInv
  <2> QED BY <2>1, <2>2, <2>3 DEF Local
<1>9. OthersSame(c)
  BY <1>2, <1>3 DEF OthersSame, Same
<1>10. OwnershipInv' /\ NoSilentLoss'
  BY <1>2, <1>4, <1>5, OwnersFrame, StraysUnchanged DEF OwnershipInv, historyVars
<1> QED BY <1>4, <1>8, <1>9, <1>10, LocalsOfStep, SafetyByTaskNext

\* An ack or a nack is sent; or the task ends because the connection is gone.
LEMMA HandlingEndsSafety ==
  ASSUME TypeInv, SafetyInv, NEW c \in Consumers,
         Ack(c) \/ Nack(c) \/ TaskEnds(c)
  PROVE  SafetyInv'
<1>1. PICK p \in {"idle", "ended"} : SetTask(c, p, None, 0, "none")
  BY DEF Ack, Nack, TaskEnds, NextPoll, EndTask
<1>2. UNCHANGED <<published, ready, outstanding, inbox, link, errorQueue,
                  historyVars>>
  BY DEF Ack, Nack, TaskEnds, brokerVars
<1>3. /\ phase'[c] = p /\ cur'[c] = None /\ req'[c] = "none"
      /\ \A e \in Consumers \ {c} :
           phase'[e] = phase[e] /\ cur'[e] = cur[e] /\ req'[e] = req[e]
  BY <1>1 DEF SetTask, TypeInv, TypeOK
<1>4. FateGrows
  BY <1>2, FateOfFacts DEF historyVars
<1>5. Local(c) /\ OwnershipInv /\ NoSilentLoss
  BY SafetyByTask
<1>6. \A e \in Consumers \ {c} : frames'[e] = frames[e]
  BY DEF Ack, Nack, TaskEnds, SendFrame, brokerVars, TypeInv, TypeOK, BrokerTypeOK
<1>7. Local(c)'
  <2>1. ChannelInv(c)'
    <3>1. CASE Connected(c)
      <4>1. (Ack(c) \/ Nack(c)) /\ phase[c] \in Busy
        BY <3>1 DEF Ack, Nack, TaskEnds, Connected, Busy
      <4>2. PICK d \in Deliveries : outstanding[c] = {d} /\ InHand(c, d)
        BY <1>5, <3>1, <4>1
           DEF Local, ChannelInv, TaskInv, NothingHeld, OneHeld, Unpolled,
               SettledByFrame
      <4>3. PICK f \in {AckFrame(d.tag), NackFrame} :
              /\ frames' = [frames EXCEPT ![c] = Append(@, f)]
              /\ f = NackFrame \/ (phase[c] = "acking" /\ f = AckFrame(d.tag))
        BY <3>1, <4>1, <4>2 DEF Ack, Nack, SendFrame, InHand
      <4>4. frames'[c] = <<f>>
        <5>1. frames[c] = <<>>
          BY <4>2 DEF InHand
        <5> QED BY <4>3, <5>1, OneElement DEF TypeInv, TypeOK, BrokerTypeOK
      <4>5. f = NackFrame \/ (f = AckFrame(d.tag) /\ Settled(d.msg)')
        <5>1. phase[c] = "acking" => Settled(d.msg)
          BY <1>5, <3>1, <4>2 DEF Local, TaskInv, InHand
        <5> QED BY <1>4, <4>3, <5>1, DeliveryFields DEF FateGrows
      <4>6. SettledByFrame(c, d)'
        BY <1>2, <1>3, <4>2, <4>4, <4>5 DEF SettledByFrame, InHand
      <4>7. OneHeld(c)'
        BY <1>2, <4>2, <4>6 DEF OneHeld
      <4> QED BY <1>2, <3>1, <4>7 DEF ChannelInv, Connected
    <3>2. CASE ~Connected(c)
      <4>1. frames' = frames
        BY <3>2 DEF Ack, Nack, TaskEnds, SendFrame, brokerVars
      <4> QED BY <1>2, <1>3, <1>5, <3>2, <4>1 DEF Local, ChannelInv, Connected
    <3> QED BY <3>1, <3>2
  <2>2. TaskInv(c)'
    BY <1>3 DEF TaskInv, Busy, Handling
  <2>3. ProvenanceInv(c)'
    BY <1>2, <1>3, <1>5, NotificatorAssumption DEF Local, ProvenanceInv
  <2> QED BY <2>1, <2>2, <2>3 DEF Local
<1>8. OthersSame(c)
  BY <1>2, <1>3, <1>6 DEF OthersSame, Same
<1>9. OwnershipInv' /\ NoSilentLoss'
  BY <1>2, <1>4, <1>5, OwnersFrame, StraysUnchanged DEF OwnershipInv, historyVars
<1> QED BY <1>4, <1>7, <1>8, <1>9, LocalsOfStep, SafetyByTaskNext

\* Late arrivals only add to what is known about published notifications.
LEMMA ArrivesLateSafety ==
  ASSUME TypeInv, SafetyInv,
         \/ \E m \in Msgs : StrayAccept(m)
         \/ \E i \in Instances, m \in Msgs : LateStored(i, m)
  PROVE  SafetyInv'
<1>1. /\ UNCHANGED <<published, ready, outstanding, inbox, frames, link, taskVars>>
      /\ Strays' \subseteq Strays /\ late' \subseteq late
      /\ errorQueue \subseteq errorQueue' /\ excused' = excused
  BY DEF StrayAccept, LateStored, brokerVars, Strays, TypeInv, TypeOK
<1>2. FateGrows
  <2>1. \A k \in Msgs : accepts[k] > 0 => accepts'[k] > 0
    BY CountedType DEF StrayAccept, LateStored, TypeInv, TypeOK
  <2> QED BY <1>1, <2>1, FateOfFacts
<1>3. \A c \in Consumers : Local(c)'
  BY <1>1, <1>2, LocalFrame, SafetyByTask DEF Same, taskVars
<1>4. OwnershipInv' /\ NoSilentLoss'
  BY <1>1, <1>2, OwnersFrame, SafetyByTask DEF OwnershipInv
<1> QED BY <1>3, <1>4, SafetyByTaskNext

-----------------------------------------------------------------------------
(* Steps of a process, a connection, the broker.                           *)

\* A process starts: its tasks poll, and hold nothing.
LEMMA StartSafety ==
  ASSUME TypeInv, SafetyInv, NEW i \in Instances, Start(i)
  PROVE  SafetyInv'
<1>1. /\ link[i] = "stopped" /\ link' = [link EXCEPT ![i] = "connected"]
      /\ phase' = [c \in Consumers |-> IF c[1] = i THEN "idle" ELSE phase[c]]
      /\ UNCHANGED <<published, ready, outstanding, inbox, frames, errorQueue,
                     cur, tries, req, historyVars>>
  BY DEF Start
<1>2. FateGrows
  BY <1>1, FateOfFacts DEF historyVars
<1>3. ASSUME NEW c \in Consumers PROVE Local(c)'
  <2>1. c[1] \in Instances /\ Local(c)
    BY SafetyByTask DEF Consumers
  <2>2. CASE c[1] = i
    <3>1. NothingHeld(c)
      BY <1>1, <2>1, <2>2 DEF Local, ChannelInv, Connected, NothingHeld
    <3>2. link'[c[1]] = "connected" /\ phase'[c] = "idle"
      BY <1>1, <2>2 DEF TypeInv, TypeOK, BrokerTypeOK
    <3>3. ChannelInv(c)'
      BY <1>1, <3>1, <3>2 DEF ChannelInv, Connected, NothingHeld
    <3>4. TaskInv(c)'
      BY <1>1, <3>1, <3>2 DEF TaskInv, NothingHeld, Busy, Handling
    <3>5. ProvenanceInv(c)'
      BY <1>1, <2>1 DEF Local, ProvenanceInv
    <3> QED BY <3>3, <3>4, <3>5 DEF Local
  <2>3. CASE c[1] # i
    <3>1. Same(c)
      BY <1>1, <2>1, <2>3 DEF Same, TypeInv, TypeOK, BrokerTypeOK
    <3> QED BY <1>2, <2>1, <3>1, LocalFrame
  <2> QED BY <2>2, <2>3
<1>4. OwnershipInv' /\ NoSilentLoss'
  BY <1>1, <1>2, OwnersFrame, SafetyByTask, StraysUnchanged DEF OwnershipInv, historyVars
<1> QED BY <1>3, <1>4, SafetyByTaskNext

\* Closing channels hands what was outstanding on them back to the queues.
LEMMA CloseChannelsSafety ==
  ASSUME TypeInv, SafetyInv, FateGrows, NEW I \in SUBSET Instances,
         CloseChannels(I), published' = published,
         Strays' \subseteq published, \A p \in late' : p[2] \in published
  PROVE  /\ OwnershipInv' /\ NoSilentLoss'
         /\ \A c \in Consumers :
              IF c[1] \in I THEN outstanding'[c] = {} /\ frames'[c] = <<>>
              ELSE outstanding'[c] = outstanding[c] /\ frames'[c] = frames[c]
<1>1. \A c \in Consumers :
        IF c[1] \in I THEN outstanding'[c] = {} /\ frames'[c] = <<>>
        ELSE outstanding'[c] = outstanding[c] /\ frames'[c] = frames[c]
  BY DEF CloseChannels
<1>2. \A m : m \in ready' <=>
        \/ m \in ready
        \/ \E c \in Consumers : \E x \in outstanding[c] : c[1] \in I /\ x.msg = m
  BY DEF CloseChannels, HeldBy, MsgsOf, ChannelsOf
<1>3. \A c \in Consumers : \A x \in outstanding[c] : x.msg \in published
  BY SafetyByTask DEF Local, ProvenanceInv, TypeInv, TypeOK, BrokerTypeOK
<1>4. OwnershipInv
  BY SafetyByTask
<1>5. OwnershipInv'
  <2>1. ready' \cup Strays' \subseteq published'
    BY <1>2, <1>3, <1>4 DEF OwnershipInv
  <2>2. ASSUME NEW c \in Consumers, NEW x \in outstanding'[c]
        PROVE  /\ x.msg \notin ready'
               /\ \A d \in Consumers \ {c} : \A y \in outstanding'[d] : y.msg # x.msg
    <3>1. c[1] \notin I /\ x \in outstanding[c]
      BY <1>1, <2>2
    <3>2. \A d \in Consumers : outstanding'[d] \subseteq outstanding[d]
      BY <1>1
    <3>3. /\ x.msg \notin ready
          /\ \A d \in Consumers \ {c} : \A y \in outstanding[d] : y.msg # x.msg
      BY <1>4, <3>1 DEF OwnershipInv
    <3> QED BY <1>2, <3>1, <3>2, <3>3
  <2> QED BY <2>1, <2>2 DEF OwnershipInv
<1>6. NoSilentLoss'
  <2>1. ASSUME NEW k \in published, Owned(k) PROVE Owned(k)'
    BY <1>1, <1>2, <2>1 DEF Owned
  <2>2. \A k \in published : k \in Msgs
    BY DEF TypeInv, TypeOK, BrokerTypeOK
  <2> QED BY <2>1, <2>2, SafetyByTask, LossByOwner, LossByOwnerNext DEF FateGrows
<1> QED BY <1>1, <1>5, <1>6

\* A process ends: its tasks hold nothing any more.
LEMMA CrashSafety ==
  ASSUME TypeInv, SafetyInv, NEW i \in Instances, Crash(i)
  PROVE  SafetyInv'
<1> DEFINE gone == ChannelsOf({i})
<1>1. /\ CloseChannels({i})
      /\ link' = [link EXCEPT ![i] = "stopped"]
      /\ inbox' = [c \in Consumers |-> IF c \in gone THEN <<>> ELSE inbox[c]]
      /\ phase' = [c \in Consumers |-> IF c \in gone THEN "ended" ELSE phase[c]]
      /\ cur' = [c \in Consumers |-> IF c \in gone THEN None ELSE cur[c]]
      /\ req' = [c \in Consumers |-> IF c \in gone THEN "none" ELSE req[c]]
      /\ stray' = WithStrays(gone)
      /\ late' \subseteq late
      /\ UNCHANGED <<published, errorQueue, accepts, excused>>
  BY DEF Crash
<1>2. \A c \in Consumers : c \in gone <=> c[1] = i
  BY DEF ChannelsOf
<1>3. FateGrows
  BY <1>1, FateOfFacts
<1>4. Strays' \subseteq published /\ \A p \in late' : p[2] \in published
  <2>1. ASSUME NEW c \in gone PROVE Abandoned(c) \subseteq published
    <3>1. c \in Consumers
      BY DEF ChannelsOf
    <3>2. phase[c] = "sending" => cur[c] \in Deliveries
      BY <3>1 DEF TypeInv, BusyHolds, Busy, Handling
    <3> QED BY <3>1, <3>2, SafetyByTask DEF Abandoned, Local, ProvenanceInv
  <2>2. Strays \subseteq published /\ \A p \in late : p[2] \in published
    BY SafetyByTask DEF OwnershipInv
  <2>3. \A m \in Strays' : m \in Strays \/ \E c \in gone : m \in Abandoned(c)
    BY <1>1, StraysGrow DEF TypeInv, TypeOK
  <2> HIDE DEF gone
  <2> QED BY <1>1, <2>1, <2>2, <2>3
<1>5. /\ OwnershipInv' /\ NoSilentLoss'
      /\ \A c \in Consumers :
           IF c[1] \in {i} THEN outstanding'[c] = {} /\ frames'[c] = <<>>
           ELSE outstanding'[c] = outstanding[c] /\ frames'[c] = frames[c]
  <2>1. CloseChannels({i}) /\ published' = published /\ {i} \in SUBSET Instances
    BY <1>1
  <2> QED BY <1>3, <1>4, <2>1, CloseChannelsSafety
<1> HIDE DEF gone
<1>6. ASSUME NEW c \in Consumers PROVE Local(c)'
  <2>1. c[1] \in Instances /\ Local(c)
    BY SafetyByTask DEF Consumers
  <2>2. CASE c[1] = i
    <3>1. /\ link'[c[1]] = "stopped" /\ outstanding'[c] = {} /\ frames'[c] = <<>>
          /\ inbox'[c] = <<>> /\ cur'[c] = None /\ phase'[c] = "ended"
      BY <1>1, <1>2, <1>5, <2>1, <2>2 DEF TypeInv, TypeOK, BrokerTypeOK
    <3>2. ChannelInv(c)'
      BY <3>1 DEF ChannelInv, Connected
    <3>3. TaskInv(c)'
      BY <3>1 DEF TaskInv, Connected, Busy, Handling
    <3>4. ProvenanceInv(c)'
      BY <3>1, NotificatorAssumption DEF ProvenanceInv
    <3> QED BY <3>2, <3>3, <3>4 DEF Local
  <2>3. CASE c[1] # i
    <3>1. Same(c)
      BY <1>1, <1>2, <1>5, <2>1, <2>3 DEF Same, TypeInv, TypeOK, BrokerTypeOK
    <3> QED BY <1>3, <2>1, <3>1, LocalFrame
  <2> QED BY <2>2, <2>3
<1> QED BY <1>5, <1>6, SafetyByTaskNext

\* A task of a lost connection keeps what it has in its hands or its inbox,
\* but nothing is outstanding any more and none of its frames arrives.
LEMMA LocalCutOff ==
  ASSUME TypeInv, NEW c \in Consumers, Local(c), FateGrows,
         UNCHANGED <<inbox[c], cur[c], phase[c], req[c]>>,
         outstanding'[c] = {}, frames'[c] = <<>>,
         link'[c[1]] = "broken" \/ (link'[c[1]] = "stopped" /\ link[c[1]] = "stopped")
  PROVE  Local(c)'
<1>1. ChannelInv(c)'
  BY DEF Local, ChannelInv, Connected
<1>2. TaskInv(c)'
  <2>1. phase[c] \in Busy => cur[c].msg \in Msgs
    BY DeliveryFields DEF TypeInv, BusyHolds
  <2> QED BY <2>1 DEF Local, TaskInv, Connected, FateGrows, Busy, Handling
<1>3. ProvenanceInv(c)'
  BY DEF Local, ProvenanceInv, FateGrows
<1> QED BY <1>1, <1>2, <1>3 DEF Local

\* A connection is lost.
LEMMA ConnectionLostSafety ==
  ASSUME TypeInv, SafetyInv, NEW i \in Instances, ConnectionLost(i)
  PROVE  SafetyInv'
<1>1. /\ CloseChannels({i})
      /\ link' = [link EXCEPT ![i] = "broken"]
      /\ late' \subseteq late
      /\ UNCHANGED <<published, inbox, errorQueue, taskVars, stray, accepts,
                     excused>>
  BY DEF ConnectionLost
<1>2. FateGrows
  BY <1>1, FateOfFacts
<1>3. /\ OwnershipInv' /\ NoSilentLoss'
      /\ \A c \in Consumers :
           IF c[1] \in {i} THEN outstanding'[c] = {} /\ frames'[c] = <<>>
           ELSE outstanding'[c] = outstanding[c] /\ frames'[c] = frames[c]
  BY <1>1, <1>2, CloseChannelsSafety, SafetyByTask, StraysUnchanged DEF OwnershipInv
<1>4. ASSUME NEW c \in Consumers PROVE Local(c)'
  <2>1. c[1] \in Instances /\ Local(c)
    BY SafetyByTask DEF Consumers
  <2>2. CASE c[1] = i
    <3>1. link'[c[1]] = "broken"
      BY <1>1, <2>2 DEF TypeInv, TypeOK, BrokerTypeOK
    <3> QED BY <1>1, <1>2, <1>3, <2>1, <2>2, <3>1, LocalCutOff DEF taskVars
  <2>3. CASE c[1] # i
    <3>1. Same(c)
      BY <1>1, <1>3, <2>1, <2>3 DEF Same, taskVars, TypeInv, TypeOK, BrokerTypeOK
    <3> QED BY <1>2, <2>1, <3>1, LocalFrame
  <2> QED BY <2>2, <2>3
<1> QED BY <1>3, <1>4, SafetyByTaskNext

\* The broker restarts: error messages are gone, and count as given up.
LEMMA BrokerRestartSafety ==
  ASSUME TypeInv, SafetyInv, BrokerRestart
  PROVE  SafetyInv'
<1>1. /\ CloseChannels(Instances)
      /\ link' = [j \in Instances |-> IF link[j] = "connected" THEN "broken"
                                                                ELSE link[j]]
      /\ excused' = excused \cup errorQueue /\ late' = {}
      /\ UNCHANGED <<published, inbox, taskVars, stray, accepts>>
  BY DEF BrokerRestart
<1>2. FateGrows
  BY <1>1, FateOfFacts
<1>3. /\ OwnershipInv' /\ NoSilentLoss'
      /\ \A c \in Consumers :
           IF c[1] \in Instances THEN outstanding'[c] = {} /\ frames'[c] = <<>>
           ELSE outstanding'[c] = outstanding[c] /\ frames'[c] = frames[c]
  BY <1>1, <1>2, CloseChannelsSafety, SafetyByTask, StraysUnchanged DEF OwnershipInv
<1>4. ASSUME NEW c \in Consumers PROVE Local(c)'
  <2>1. c[1] \in Instances /\ Local(c)
    BY SafetyByTask DEF Consumers
  <2>2. \/ link'[c[1]] = "broken"
        \/ link'[c[1]] = "stopped" /\ link[c[1]] = "stopped"
    BY <1>1, <2>1 DEF TypeInv, TypeOK, BrokerTypeOK
  <2> QED BY <1>1, <1>2, <1>3, <2>1, <2>2, LocalCutOff DEF taskVars
<1> QED BY <1>3, <1>4, SafetyByTaskNext

-----------------------------------------------------------------------------
\* Every step keeps the invariant.
LEMMA SafetyStep == TypeInv /\ TypeInv' /\ SafetyInv /\ [Next]_vars => SafetyInv'
<1> SUFFICES ASSUME TypeInv, TypeInv', SafetyInv, [Next]_vars PROVE SafetyInv'
  OBVIOUS
<1>1. CASE UNCHANGED vars
  <2>1. FateGrows
    BY <1>1, FateOfFacts DEF vars, brokerVars, historyVars
  <2>2. \A c \in Consumers : Local(c)'
    BY <1>1, <2>1, LocalFrame, SafetyByTask DEF vars, brokerVars, taskVars, Same
  <2>3. OwnershipInv' /\ NoSilentLoss'
    BY <1>1, <2>1, OwnersFrame, SafetyByTask, StraysUnchanged
       DEF vars, brokerVars, historyVars, OwnershipInv
  <2> QED BY <2>2, <2>3, SafetyByTaskNext
<1>2. CASE Next
  BY <1>2, PublishSafety, DeliverSafety, SettleSafety, TakeSafety,
     HandlerStepSafety, HandlingEndsSafety, ArrivesLateSafety, StartSafety,
     CrashSafety, ConnectionLostSafety, BrokerRestartSafety
     DEF Next, BrokerStep, TaskStep, TaskFault
<1> QED BY <1>1, <1>2

(***************************************************************************)
(* The inductive invariant: one delivery in one place per live channel,    *)
(* acks only for settled notifications, one owner per notification         *)
(* (lib.rs:125-155 with services/rabbit.rs:42-144).                        *)
(***************************************************************************)
THEOREM SafetyInvariant == Spec => []SafetyInv
<1> QED BY InitSafety, SafetyStep, TypeInvariant, PTL DEF Spec

(***************************************************************************)
(* No notification leaves its queue before its fate is known, for any      *)
(* number of instances, notifications and faults.                          *)
(***************************************************************************)
THEOREM NothingLostSilently == Spec => []NoSilentLoss
<1>1. SafetyInv => NoSilentLoss
  BY DEF SafetyInv
<1> QED BY <1>1, SafetyInvariant, PTL

\* The message a task of a live channel holds is outstanding on its channel.
LEMMA HeldIsOutstanding ==
  ASSUME TypeInv, SafetyInv, NEW c \in Consumers, Connected(c), NEW m, Holds(c, m)
  PROVE  \E d \in outstanding[c] : d.msg = m
<1>1. OneHeld(c)
  BY SafetyByTask DEF Local, ChannelInv, NothingHeld, Holds
<1>2. PICK d \in Deliveries :
        /\ outstanding[c] = {d}
        /\ Unpolled(c, d) \/ InHand(c, d) \/ SettledByFrame(c, d)
  BY <1>1 DEF OneHeld
<1>3. \A k \in DOMAIN <<d>> : <<d>>[k] = d
  BY OneElement
<1> QED BY <1>2, <1>3 DEF Holds, Unpolled, InHand, SettledByFrame

(***************************************************************************)
(* A task settles only what it holds, for any load: the nack of tag 0 with *)
(* `multiple` (lib.rs:144) is safe because Prefetch is 1 (r2d2.rs:21).     *)
(***************************************************************************)
THEOREM SettlesOnlyWhatItHolds == Spec => []SettlesWhatItHolds
<1>1. ASSUME TypeInv, SafetyInv PROVE SettlesWhatItHolds
  <2> SUFFICES ASSUME NEW c \in Consumers, Connected(c)
               PROVE  /\ cur[c] # None => cur[c] \in outstanding[c]
                      /\ \A k \in DOMAIN inbox[c] : inbox[c][k] \in outstanding[c]
                      /\ (\E k \in DOMAIN frames[c] : frames[c][k] = NackFrame) =>
                           (inbox[c] = <<>> /\ cur[c] = None)
    BY DEF SettlesWhatItHolds
  <2>1. NothingHeld(c) \/ OneHeld(c)
    BY <1>1, SafetyByTask DEF Local, ChannelInv
  <2>2. CASE NothingHeld(c)
    BY <2>2 DEF NothingHeld
  <2>3. CASE OneHeld(c)
    <3> PICK d \in Deliveries :
          /\ outstanding[c] = {d}
          /\ Unpolled(c, d) \/ InHand(c, d) \/ SettledByFrame(c, d)
      BY <2>3 DEF OneHeld
    <3>1. \A k \in DOMAIN <<d>> : <<d>>[k] = d
      BY OneElement
    <3> QED BY <3>1 DEF Unpolled, InHand, SettledByFrame
  <2> QED BY <2>1, <2>2, <2>3
<1> QED BY <1>1, TypeInvariant, SafetyInvariant, PTL

(***************************************************************************)
(* Two tasks on live connections never handle the same notification, and   *)
(* none handles one that waits in its queue, for any number of instances.  *)
(***************************************************************************)
THEOREM NeverTwoHandlers == Spec => []OneHandler
<1>1. ASSUME TypeInv, SafetyInv PROVE OneHandler
  <2> SUFFICES ASSUME NEW c \in Consumers, NEW m \in Msgs, Connected(c), Holds(c, m)
               PROVE  /\ m \notin ready
                      /\ \A d \in Consumers \ {c} : Connected(d) => ~Holds(d, m)
    BY DEF OneHandler
  <2>1. PICK x \in outstanding[c] : x.msg = m
    BY <1>1, HeldIsOutstanding
  <2>2. ASSUME NEW d \in Consumers \ {c}, Connected(d), Holds(d, m) PROVE FALSE
    <3>1. PICK y \in outstanding[d] : y.msg = m
      BY <1>1, <2>2, HeldIsOutstanding
    <3> QED BY <1>1, <2>1, <3>1, SafetyByTask DEF OwnershipInv
  <2> QED BY <1>1, <2>1, <2>2, SafetyByTask DEF OwnershipInv
<1> QED BY <1>1, TypeInvariant, SafetyInvariant, PTL

-----------------------------------------------------------------------------
(* The refinement of NotificationLedger: every step of the instances, the *)
(* broker and the remote services is a step of the ledger or changes       *)
(* nothing it shows.                                                       *)

\* What the ledger shows, apart from what is pending.
FatesUnchanged == UNCHANGED <<published, Processed, errorQueue, excused>>

\* The broker owns the same notifications as before.
OwnersUnchanged == \A m : Owned(m)' <=> Owned(m)

\* Pending in the next state.
LEMMA PendingIsOwnedNext ==
  \A m : m \in Pending' <=> Owned(m)'
<1>1. ChannelsOf(Instances) = Consumers
  BY DEF ChannelsOf, Consumers
<1> QED BY <1>1 DEF Pending, HeldBy, MsgsOf, Owned

\* The same owners mean the same pending notifications.
LEMMA PendingUnchanged ==
  ASSUME OwnersUnchanged PROVE Pending' = Pending
BY PendingIsOwned, PendingIsOwnedNext DEF OwnersUnchanged

\* A step that shows neither in the owners nor in the fates stutters.
LEMMA Stutter ==
  ASSUME OwnersUnchanged, FatesUnchanged
  PROVE  UNCHANGED Ledger!ledgerVars
BY PendingUnchanged DEF FatesUnchanged, Ledger!ledgerVars, Processed

\* Work queues and outstanding deliveries untouched: the same owners.
LEMMA OwnersLeftAlone ==
  ASSUME UNCHANGED <<ready, outstanding>> PROVE OwnersUnchanged
BY DEF OwnersUnchanged, Owned

\* Counting one more acceptance of m adds m to what was processed.
LEMMA ProcessedGrows ==
  ASSUME TypeInv, NEW m \in Msgs, accepts' = Counted(m)
  PROVE  Processed' = Processed \cup {m}
<1>1. /\ accepts \in [Msgs -> Nat] /\ Counted(m)[m] > 0
      /\ \A k \in Msgs \ {m} : Counted(m)[k] = accepts[k]
  BY CountedType DEF TypeInv, TypeOK, Counted
<1> QED BY <1>1 DEF Processed

\* What happens to one notification in the ledger is a step of the ledger.
LEMMA FateIsStep ==
  ASSUME NEW m \in Msgs,
         Ledger!Accept(m) \/ Ledger!Park(m) \/ Ledger!Excuse(m) \/ Ledger!Discharge(m)
  PROVE  Ledger!LedgerNext
BY DEF Ledger!LedgerNext

\* Initially the ledger is empty.
LEMMA InitLedger == Init => Ledger!LedgerInit
<1> SUFFICES ASSUME Init PROVE Ledger!LedgerInit
  OBVIOUS
<1>1. Processed = {}
  BY DEF Init, Processed
<1>2. \A m : ~Owned(m)
  BY DEF Init, BrokerInit, Owned
<1>3. Pending = {}
  BY <1>2, PendingIsOwned
<1> QED BY <1>1, <1>3 DEF Init, BrokerInit, Ledger!LedgerInit, Processed

\* Publishing is Arrive.
LEMMA PublishLedger ==
  ASSUME TypeInv, SafetyInv, NEW m \in Msgs, Publish(m)
  PROVE  Ledger!Arrive(m)
<1>1. /\ m \notin published /\ published' = published \cup {m}
      /\ ready' = ready \cup {m}
      /\ UNCHANGED <<outstanding, errorQueue, accepts, excused>>
  BY DEF Publish, Enqueue, historyVars
<1>2. Pending' = Pending \cup {m}
  BY <1>1, PendingIsOwned, PendingIsOwnedNext DEF Owned
<1> QED BY <1>1, <1>2 DEF Ledger!Arrive, Processed

\* Delivering shows nothing.
LEMMA DeliverLedger ==
  ASSUME TypeInv, NEW c \in Consumers, BrokerDeliver(c)
  PROVE  UNCHANGED Ledger!ledgerVars
<1>1. PICK m \in ready, t \in Tags :
        /\ ready' = ready \ {m}
        /\ outstanding' = [outstanding EXCEPT ![c] = @ \cup {[tag |-> t, msg |-> m]}]
  BY DEF BrokerDeliver, Deliver
<1> DEFINE d == [tag |-> t, msg |-> m]
<1>2. /\ outstanding'[c] = outstanding[c] \cup {d} /\ d.msg = m
      /\ \A e \in Consumers \ {c} : outstanding'[e] = outstanding[e]
  BY <1>1 DEF TypeInv, TypeOK, BrokerTypeOK
<1> HIDE DEF d
<1>3. OwnersUnchanged
  BY <1>1, <1>2 DEF OwnersUnchanged, Owned
<1>4. FatesUnchanged
  BY DEF BrokerDeliver, Deliver, historyVars, FatesUnchanged, Processed
<1> QED BY <1>3, <1>4, Stutter

\* An ack the broker handles is Discharge; a nack shows nothing.
LEMMA SettleLedger ==
  ASSUME TypeInv, SafetyInv, NEW c \in Consumers, BrokerAck(c) \/ BrokerNack(c)
  PROVE  [Ledger!LedgerNext]_(Ledger!ledgerVars)
<1>1. /\ frames[c] # <<>>
      /\ outstanding' =
           [outstanding EXCEPT ![c] = @ \ Covered(c, Head(frames[c]))]
      /\ UNCHANGED <<published, errorQueue, accepts, excused>>
  BY DEF BrokerAck, BrokerNack, ApplyAck, ApplyNack, historyVars
<1>2. PICK d \in Deliveries :
        /\ outstanding[c] = {d} /\ Covered(c, Head(frames[c])) = {d}
        /\ Head(frames[c]).kind = "ack" => Settled(d.msg)
  BY <1>1, FrameFacts
<1>3. /\ outstanding'[c] = {}
      /\ \A e \in Consumers \ {c} : outstanding'[e] = outstanding[e]
  BY <1>1, <1>2 DEF TypeInv, TypeOK, BrokerTypeOK
<1>4. d.msg \in Msgs /\ OwnershipInv
  BY DeliveryFields, SafetyByTask
<1>5. CASE BrokerAck(c)
  <2>1. Settled(d.msg) /\ ready' = ready
    BY <1>2, <1>5 DEF BrokerAck, ApplyAck
  <2>2. \A k : Owned(k)' <=> Owned(k) /\ k # d.msg
    BY <1>2, <1>3, <1>4, <2>1 DEF Owned, OwnershipInv
  <2>3. Pending' = Pending \ {d.msg}
    BY <2>2, PendingIsOwned, PendingIsOwnedNext
  <2>4. d.msg \in Pending
    BY <1>2, PendingIsOwned DEF Owned
  <2>5. Ledger!Discharge(d.msg)
    BY <1>1, <1>4, <2>1, <2>3, <2>4 DEF Ledger!Discharge, Settled, Processed
  <2> QED BY <1>4, <2>5, FateIsStep
<1>6. CASE BrokerNack(c)
  <2>1. ready' = ready \cup {d.msg}
    BY <1>2, <1>6 DEF BrokerNack, ApplyNack, MsgsOf
  <2>2. ASSUME NEW k PROVE Owned(k)' <=> Owned(k)
    BY <1>2, <1>3, <2>1 DEF Owned
  <2>3. OwnersUnchanged
    BY <2>2 DEF OwnersUnchanged
  <2>4. FatesUnchanged
    BY <1>1 DEF FatesUnchanged, Processed
  <2> QED BY <2>3, <2>4, Stutter
<1> QED BY <1>5, <1>6

\* Within a handler: an accepted request is Accept, a stored error message
\* Park, a swallowed error Excuse; all else shows nothing.
LEMMA HandlerStepLedger ==
  ASSUME TypeInv, SafetyInv, NEW c \in Consumers,
         \/ AttemptOk(c) \/ AttemptFailed(c) \/ Retry(c) \/ GiveUp(c)
         \/ PublishDone(c) \/ RetryTimerFails(c) \/ Answer(c)
         \/ HandlerTimeout(c)
  PROVE  [Ledger!LedgerNext]_(Ledger!ledgerVars)
<1> DEFINE held == cur[c].msg
<1>1. held \in Msgs /\ held \in published /\ cur[c] # None
  <2>1. phase[c] \in Busy
    BY DEF AttemptOk, AttemptFailed, Retry, GiveUp, PublishDone,
           RetryTimerFails, Answer, RemoteAccept, RemoteAcceptUnusable,
           RemoteRefuse, ErrorStored, ErrorRefused, HandlerTimeout, Busy, Handling
  <2>2. cur[c] \in Deliveries
    BY <2>1 DEF TypeInv, BusyHolds
  <2> QED BY <2>2, DeliveryFields, SafetyByTask, NotificatorAssumption
          DEF Local, ProvenanceInv
<1>2. UNCHANGED <<published, ready, outstanding>>
  BY DEF brokerVars, AttemptOk, AttemptFailed, Retry, GiveUp, PublishDone,
         RetryTimerFails, Answer, RemoteAccept, RemoteAcceptUnusable,
         RemoteRefuse, ErrorStored, ErrorRefused, HandlerTimeout
<1>3. Pending' = Pending /\ OwnersUnchanged
  BY <1>2, OwnersLeftAlone, PendingUnchanged
<1> HIDE DEF held
<1>4. CASE RemoteAccept(c) \/ RemoteAcceptUnusable(c)
  <2>1. accepts' = Counted(held) /\ UNCHANGED <<errorQueue, excused>>
    BY <1>4 DEF RemoteAccept, RemoteAcceptUnusable, brokerVars, held
  <2>2. Processed' = Processed \cup {held}
    BY <1>1, <2>1, ProcessedGrows
  <2>3. Ledger!Accept(held)
    BY <1>1, <1>2, <1>3, <2>1, <2>2 DEF Ledger!Accept, Processed
  <2>4. Ledger!LedgerNext
    BY <1>1, <2>3, FateIsStep
  <2> QED BY <2>4
<1>5. CASE ErrorStored(c)
  <2>1. errorQueue' = errorQueue \cup {held} /\ UNCHANGED <<accepts, excused>>
    BY <1>5 DEF ErrorStored, historyVars, held
  <2>2. Ledger!Park(held)
    BY <1>1, <1>2, <1>3, <2>1 DEF Ledger!Park, Processed
  <2> QED BY <1>1, <2>2, FateIsStep
<1>6. CASE PublishDone(c) \/ RetryTimerFails(c)
  <2>1. UNCHANGED <<accepts, errorQueue>>
    BY <1>6 DEF PublishDone, RetryTimerFails, brokerVars
  <2>2. CASE excused' = excused
    BY <1>2, <1>3, <2>1, <2>2, Stutter DEF FatesUnchanged, Processed
  <2>3. CASE excused' # excused
    <3>1. Connected(c) /\ excused' = excused \cup {held}
      BY <1>6, <2>3 DEF PublishDone, RetryTimerFails, held
    <3>2. Holds(c, held)
      BY <1>1 DEF Holds, held
    <3>3. held \in Pending
      BY <3>1, <3>2, HeldIsOutstanding, PendingIsOwned DEF Owned
    <3>4. Ledger!Excuse(held)
      BY <1>2, <1>3, <2>1, <3>1, <3>3 DEF Ledger!Excuse, Processed
    <3> QED BY <1>1, <3>4, FateIsStep
  <2> QED BY <2>2, <2>3
<1>7. CASE \/ AttemptOk(c) \/ AttemptFailed(c) \/ Retry(c) \/ GiveUp(c)
           \/ RemoteRefuse(c) \/ ErrorRefused(c) \/ HandlerTimeout(c)
  <2>1. FatesUnchanged
    BY <1>7 DEF FatesUnchanged, Processed, brokerVars, historyVars, AttemptOk,
                AttemptFailed, Retry, GiveUp, RemoteRefuse, ErrorRefused,
                HandlerTimeout
  <2> QED BY <1>3, <2>1, Stutter
<1> QED BY <1>4, <1>5, <1>6, <1>7 DEF Answer

\* What arrives late is Accept or Park.
LEMMA ArrivesLateLedger ==
  ASSUME TypeInv, SafetyInv,
         \/ \E m \in Msgs : StrayAccept(m)
         \/ \E i \in Instances, m \in Msgs : LateStored(i, m)
  PROVE  Ledger!LedgerNext
<1>1. UNCHANGED <<published, ready, outstanding>>
  BY DEF StrayAccept, LateStored, brokerVars
<1>2. Pending' = Pending
  BY <1>1, OwnersLeftAlone, PendingUnchanged
<1>3. ASSUME NEW m \in Msgs, StrayAccept(m) PROVE Ledger!LedgerNext
  <2>1. /\ m \in published /\ accepts' = Counted(m)
        /\ UNCHANGED <<errorQueue, excused>>
    BY <1>3, SafetyByTask DEF StrayAccept, OwnershipInv, Strays, brokerVars
  <2>2. Processed' = Processed \cup {m}
    BY <2>1, ProcessedGrows
  <2>3. Ledger!Accept(m)
    BY <1>1, <1>2, <2>1, <2>2 DEF Ledger!Accept, Processed
  <2> QED BY <2>3 DEF Ledger!LedgerNext
<1>4. ASSUME NEW i \in Instances, NEW m \in Msgs, LateStored(i, m)
      PROVE  Ledger!LedgerNext
  <2>1. m \in published
    BY <1>4, SafetyByTask DEF LateStored, OwnershipInv
  <2>2. Ledger!Park(m)
    BY <1>1, <1>2, <1>4, <2>1 DEF LateStored, Ledger!Park, Processed
  <2> QED BY <2>2 DEF Ledger!LedgerNext
<1> QED BY <1>3, <1>4

\* Polling, sending a frame, ending a task and starting a process show nothing.
LEMMA TaskStepLedger ==
  ASSUME \/ \E c \in Consumers : \/ TakePush(c) \/ TakeMalformed(c) \/ TakeAndSend(c)
                                 \/ Ack(c) \/ Nack(c) \/ TaskEnds(c)
         \/ \E i \in Instances : Start(i)
  PROVE  UNCHANGED Ledger!ledgerVars
<1>1. UNCHANGED <<published, ready, outstanding, errorQueue, accepts, excused>>
  BY DEF TakePush, TakeMalformed, TakeAndSend, Poll, Ack, Nack, TaskEnds, Start,
         brokerVars, historyVars
<1> QED BY <1>1, OwnersLeftAlone, Stutter DEF FatesUnchanged, Processed

\* Closing channels moves notifications from the channels to the queues: they
\* have the same owner, the broker.
LEMMA CloseChannelsLedger ==
  ASSUME NEW I \in SUBSET Instances, CloseChannels(I)
  PROVE  OwnersUnchanged
<1>1. \A m : m \in ready' <=>
        \/ m \in ready
        \/ \E c \in Consumers : \E x \in outstanding[c] : c[1] \in I /\ x.msg = m
  BY DEF CloseChannels, HeldBy, MsgsOf, ChannelsOf
<1>2. \A c \in Consumers :
        outstanding'[c] = IF c[1] \in I THEN {} ELSE outstanding[c]
  BY DEF CloseChannels
<1> HIDE DEF CloseChannels
<1>3. ASSUME NEW m, Owned(m) PROVE Owned(m)'
  BY <1>1, <1>2, <1>3 DEF Owned
<1>4. ASSUME NEW m, Owned(m)' PROVE Owned(m)
  BY <1>1, <1>2, <1>4 DEF Owned
<1> QED BY <1>3, <1>4 DEF OwnersUnchanged

\* A crash and a lost connection show nothing, a broker restart is LoseParked.
LEMMA FaultLedger ==
  ASSUME \/ \E i \in Instances : Crash(i) \/ ConnectionLost(i)
         \/ BrokerRestart
  PROVE  [Ledger!LedgerNext]_(Ledger!ledgerVars)
<1>1. ASSUME NEW i \in Instances, Crash(i) \/ ConnectionLost(i)
      PROVE  UNCHANGED Ledger!ledgerVars
  <2>1. CloseChannels({i}) /\ {i} \in SUBSET Instances
    BY <1>1 DEF Crash, ConnectionLost
  <2>2. FatesUnchanged
    BY <1>1 DEF Crash, ConnectionLost, FatesUnchanged, Processed
  <2> QED BY <2>1, <2>2, CloseChannelsLedger, Stutter
<1>2. CASE BrokerRestart
  <2>1. CloseChannels(Instances)
    BY <1>2 DEF BrokerRestart
  <2>2. Pending' = Pending
    BY <2>1, CloseChannelsLedger, PendingUnchanged
  <2>3. Ledger!LoseParked
    BY <1>2, <2>2 DEF BrokerRestart, Ledger!LoseParked, Processed
  <2> QED BY <2>3 DEF Ledger!LedgerNext
<1> QED BY <1>1, <1>2

\* Every step is a step of the ledger, or shows nothing.
LEMMA LedgerStep ==
  TypeInv /\ SafetyInv /\ [Next]_vars => [Ledger!LedgerNext]_(Ledger!ledgerVars)
<1> SUFFICES ASSUME TypeInv, SafetyInv, [Next]_vars
             PROVE  [Ledger!LedgerNext]_(Ledger!ledgerVars)
  OBVIOUS
<1>1. CASE UNCHANGED vars
  <2>1. UNCHANGED <<published, ready, outstanding, errorQueue, accepts, excused>>
    BY <1>1 DEF vars, brokerVars, historyVars
  <2> QED BY <2>1, OwnersLeftAlone, Stutter DEF FatesUnchanged, Processed
<1>2. ASSUME NEW m \in Msgs, Publish(m) PROVE Ledger!LedgerNext
  BY <1>2, PublishLedger DEF Ledger!LedgerNext
<1>3. CASE Next
  BY <1>2, <1>3, DeliverLedger, SettleLedger, HandlerStepLedger,
     ArrivesLateLedger, TaskStepLedger, FaultLedger
     DEF Next, BrokerStep, TaskStep, TaskFault
<1> QED BY <1>1, <1>3

(***************************************************************************)
(* The service implements the ledger, for any instances, notifications and *)
(* faults: in particular a discharged notification never becomes pending   *)
(* again, and none is discharged before its fate is known.                 *)
(***************************************************************************)
THEOREM ServiceImplementsLedger == Spec => ImplementsLedger
<1> QED BY InitLedger, LedgerStep, TypeInvariant, SafetyInvariant, PTL
        DEF Spec, ImplementsLedger, Ledger!LedgerSpec

-----------------------------------------------------------------------------
(* The retry loop.                                                         *)

\* A task of a stopped process is at rest, so that its start shows nothing.
StoppedRests ==
  \A c \in Consumers : link[c[1]] = "stopped" => phase[c] = "ended" /\ tries[c] = 0

LoopSteps(c) == [Loop(c)!LoopNext]_(Loop(c)!loopVars)

\* The loop sees nothing of a step that leaves phase and attempt alone.
LEMMA LoopStutters ==
  ASSUME NEW c \in Consumers, phase'[c] = phase[c], tries'[c] = tries[c]
  PROVE  LoopSteps(c)
BY DEF LoopSteps, Loop!loopVars

\* What the loop sees of a task that is set to something else.
LEMMA SetTaskLoop ==
  ASSUME TypeInv, NEW c \in Consumers, NEW p, NEW d, NEW k, NEW r,
         SetTask(c, p, d, k, r)
  PROVE  /\ phase'[c] = p /\ tries'[c] = k
         /\ \A e \in Consumers \ {c} : phase'[e] = phase[e] /\ tries'[e] = tries[e]
BY DEF TypeInv, TypeOK, SetTask

\* A step of one task is a step of its loop, and no other loop sees it.
LEMMA OneLoopSteps ==
  ASSUME TypeInv, NEW c \in Consumers, NEW p, NEW d, NEW k, NEW r,
         SetTask(c, p, d, k, r),
         (phase'[c] = p /\ tries'[c] = k) => LoopSteps(c)
  PROVE  \A e \in Consumers : LoopSteps(e)
BY SetTaskLoop, LoopStutters

\* The tasks' steps.
LEMMA TaskStepLoop ==
  ASSUME TypeInv, NEW c \in Consumers, TaskStep(c) \/ TaskFault(c)
  PROVE  \A e \in Consumers : LoopSteps(e)
<1> USE DEF LoopSteps, Loop!LoopNext, Loop!Enter
<1>0. tries[c] \in 0..MaxAttempts /\ MaxAttempts \in Nat
  BY NotificatorAssumption DEF TypeInv, TypeOK
<1>1. CASE TakePush(c) \/ TakeMalformed(c) \/ TakeAndSend(c)
  <2> PICK d \in Deliveries :
        /\ phase[c] = "idle"
        /\ \/ c[2] = "pushes" /\ SetTask(c, "acking", d, 0, "none")
           \/ c[2] # "pushes" /\ SetTask(c, "failed", d, 0, "none")
           \/ c[2] # "pushes" /\ SetTask(c, "sending", d, 1, "sent")
    BY <1>1 DEF TakePush, TakeMalformed, TakeAndSend, Poll
  <2> QED BY OneLoopSteps DEF Loop!Take
<1>2. CASE AttemptOk(c) \/ PublishDone(c) \/ RetryTimerFails(c)
  <2>1. phase[c] \in {"sending", "waiting", "publishing"} /\ Move(c, "acking", "none")
    BY <1>2 DEF AttemptOk, PublishDone, RetryTimerFails
  <2> QED BY <2>1, OneLoopSteps DEF Move, Loop!HandlerOk
<1>3. CASE AttemptFailed(c)
  <2>1. phase[c] = "sending" /\ Move(c, "waiting", "none")
    BY <1>3 DEF AttemptFailed
  <2> QED BY <2>1, OneLoopSteps DEF Move, Loop!DelayNext
<1>4. CASE Retry(c) \/ GiveUp(c)
  <2>1. /\ phase[c] = "waiting"
        /\ \/ tries[c] < MaxAttempts /\ SetTask(c, "sending", cur[c], tries[c] + 1, "sent")
           \/ tries[c] = MaxAttempts /\ SetTask(c, "publishing", cur[c], tries[c], "sent")
    BY <1>0, <1>4 DEF Retry, GiveUp, Move
  <2> QED BY <2>1, OneLoopSteps DEF Loop!AttemptNext
<1>5. CASE Ack(c) \/ Nack(c) \/ TaskEnds(c)
  <2>1. \E p \in {"idle", "ended"} : SetTask(c, p, None, 0, "none")
    BY <1>5 DEF Ack, Nack, TaskEnds, NextPoll, EndTask
  <2> QED BY <2>1, OneLoopSteps DEF Loop!Leave
<1>6. CASE HandlerTimeout(c)
  <2>1. /\ phase[c] \in {"sending", "waiting", "publishing"}
        /\ SetTask(c, "failed", cur[c], 0, "none")
    BY <1>6 DEF HandlerTimeout, Handling
  <2> QED BY <2>1, OneLoopSteps DEF Loop!HandlerDropped
<1> QED BY <1>1, <1>2, <1>3, <1>4, <1>5, <1>6 DEF TaskStep, TaskFault

\* What the remote service and the broker answer is no step of the loop.
LEMMA AnswerLoop ==
  ASSUME TypeInv, NEW c \in Consumers, Answer(c)
  PROVE  \A e \in Consumers : LoopSteps(e)
<1>1. \E r \in ReqStates : SetTask(c, phase[c], cur[c], tries[c], r)
  BY DEF Answer, RemoteAccept, RemoteAcceptUnusable, RemoteRefuse, ErrorStored,
         ErrorRefused, Move, ReqStates
<1> QED BY <1>1, OneLoopSteps, LoopStutters

\* Nor are the steps that leave all tasks alone.
LEMMA OtherStepLoop ==
  ASSUME \/ \E m \in Msgs : Publish(m) \/ StrayAccept(m)
         \/ \E c \in Consumers : BrokerStep(c)
         \/ \E i \in Instances : ConnectionLost(i)
         \/ \E i \in Instances, m \in Msgs : LateStored(i, m)
         \/ BrokerRestart
         \/ UNCHANGED vars
  PROVE  \A e \in Consumers : LoopSteps(e)
<1>1. UNCHANGED <<phase, tries>>
  BY DEF Publish, StrayAccept, BrokerStep, BrokerDeliver, BrokerAck, BrokerNack,
         ConnectionLost, LateStored, BrokerRestart, vars, taskVars
<1> QED BY <1>1, LoopStutters

\* A process that starts finds its tasks at rest; one that ends leaves them so.
LEMMA ProcessLoop ==
  ASSUME TypeInv, StoppedRests, NEW i \in Instances, Start(i) \/ Crash(i)
  PROVE  \A e \in Consumers : LoopSteps(e)
<1> SUFFICES ASSUME NEW e \in Consumers PROVE LoopSteps(e)
  OBVIOUS
<1>1. CASE Start(i)
  <2>1. tries' = tries /\ phase'[e] = IF e[1] = i THEN "idle" ELSE phase[e]
    BY <1>1 DEF Start
  <2>2. e[1] = i => phase[e] = "ended"
    BY <1>1 DEF Start, StoppedRests
  <2> QED BY <2>1, <2>2 DEF LoopSteps, Loop!loopVars
<1>2. CASE Crash(i)
  <2>1. CASE e \in ChannelsOf({i})
    <3>1. phase'[e] = "ended" /\ tries'[e] = 0
      BY <1>2, <2>1 DEF Crash
    <3> QED BY <3>1 DEF LoopSteps, Loop!LoopNext, Loop!Leave, Loop!Enter
  <2>2. CASE e \notin ChannelsOf({i})
    <3>1. phase'[e] = phase[e] /\ tries'[e] = tries[e]
      BY <1>2, <2>2 DEF Crash
    <3> QED BY <3>1, LoopStutters
  <2> QED BY <2>1, <2>2
<1> QED BY <1>1, <1>2

\* Every step is a step of every task's loop, or nothing to it.
LEMMA LoopStep ==
  TypeInv /\ StoppedRests /\ [Next]_vars => \A e \in Consumers : LoopSteps(e)
BY TaskStepLoop, AnswerLoop, OtherStepLoop, ProcessLoop DEF Next

\* The tasks of a stopped process stay at rest: they have no step.
LEMMA StoppedRestsStep ==
  TypeInv /\ StoppedRests /\ [Next]_vars => StoppedRests'
<1> SUFFICES ASSUME TypeInv, StoppedRests, [Next]_vars,
                    NEW e \in Consumers, link'[e[1]] = "stopped"
             PROVE  phase'[e] = "ended" /\ tries'[e] = 0
  BY DEF StoppedRests
<1>0. e[1] \in Instances
  BY DEF Consumers
<1>1. ASSUME NEW c \in Consumers, NEW p, NEW d, NEW k, NEW r,
             phase[c] # "ended", link' = link, SetTask(c, p, d, k, r)
      PROVE  phase'[e] = "ended" /\ tries'[e] = 0
  <2>1. phase[e] = "ended" /\ tries[e] = 0
    BY <1>1 DEF StoppedRests
  <2> QED BY <1>1, <2>1, SetTaskLoop
<1>2. ASSUME NEW c \in Consumers, TaskStep(c) \/ Answer(c) \/ TaskFault(c)
      PROVE  phase'[e] = "ended" /\ tries'[e] = 0
  <2>1. phase[c] # "ended" /\ link' = link
    BY <1>2
       DEF TaskStep, Answer, TaskFault, TakePush, TakeMalformed, TakeAndSend, Poll,
           AttemptOk, AttemptFailed, Retry, GiveUp, PublishDone, Ack, Nack, TaskEnds,
           RemoteAccept, RemoteRefuse, RemoteAcceptUnusable, ErrorStored, ErrorRefused,
           RetryTimerFails, HandlerTimeout, Handling, brokerVars
  <2>2. \E p, d, k, r : SetTask(c, p, d, k, r)
    BY <1>2
       DEF TaskStep, Answer, TaskFault, TakePush, TakeMalformed, TakeAndSend,
           AttemptOk, AttemptFailed, Retry, GiveUp, PublishDone, Ack, Nack, TaskEnds,
           RemoteAccept, RemoteRefuse, RemoteAcceptUnusable, ErrorStored, ErrorRefused,
           RetryTimerFails, HandlerTimeout, Move, NextPoll, EndTask
  <2> QED BY <1>1, <2>1, <2>2
<1>3. ASSUME \/ \E m \in Msgs : Publish(m) \/ StrayAccept(m)
             \/ \E c \in Consumers : BrokerStep(c)
             \/ \E i \in Instances, m \in Msgs : LateStored(i, m)
             \/ UNCHANGED vars
      PROVE  phase'[e] = "ended" /\ tries'[e] = 0
  <2>1. UNCHANGED <<phase, tries, link>>
    BY <1>3 DEF Publish, Enqueue, StrayAccept, BrokerStep, BrokerDeliver, Deliver,
                BrokerAck, ApplyAck, BrokerNack, ApplyNack, LateStored, vars, taskVars,
                brokerVars
  <2> QED BY <2>1 DEF StoppedRests
<1>4. ASSUME \/ BrokerRestart
             \/ \E i \in Instances : ConnectionLost(i)
      PROVE  phase'[e] = "ended" /\ tries'[e] = 0
  <2>1. UNCHANGED <<phase, tries>> /\ link[e[1]] = "stopped"
    BY <1>0, <1>4 DEF BrokerRestart, ConnectionLost, taskVars, TypeInv, TypeOK, BrokerTypeOK
  <2> QED BY <2>1 DEF StoppedRests
<1>5. ASSUME NEW i \in Instances, Start(i)
      PROVE  phase'[e] = "ended" /\ tries'[e] = 0
  <2>1. e[1] # i /\ link[e[1]] = "stopped"
    BY <1>0, <1>5 DEF Start, TypeInv, TypeOK, BrokerTypeOK
  <2> QED BY <1>5, <2>1 DEF Start, StoppedRests
<1>6. ASSUME NEW i \in Instances, Crash(i)
      PROVE  phase'[e] = "ended" /\ tries'[e] = 0
  <2>1. CASE e \in ChannelsOf({i})
    BY <1>6, <2>1 DEF Crash
  <2>2. CASE e \notin ChannelsOf({i})
    <3>1. e[1] # i
      BY <2>2 DEF ChannelsOf
    <3>2. link[e[1]] = "stopped"
      BY <1>0, <1>6, <3>1 DEF Crash, TypeInv, TypeOK, BrokerTypeOK
    <3> QED BY <1>6, <2>2, <3>2 DEF Crash, StoppedRests
  <2> QED BY <2>1, <2>2
<1> QED BY <1>2, <1>3, <1>4, <1>5, <1>6 DEF Next

(***************************************************************************)
(* Every task goes through the retry loop as send_email and send_callback  *)
(* chain it, for any number of attempts, any other tasks and any faults    *)
(* (services/rabbit.rs:88-144, lib.rs:126-163).                            *)
(***************************************************************************)
THEOREM TasksAlwaysRunTheLoop == Spec => TasksRunTheLoop
<1>1. Init => StoppedRests /\ \A c \in Consumers : Loop(c)!LoopInit
  BY DEF Init, StoppedRests, Loop!LoopInit
<1>2. TypeInv /\ StoppedRests /\ [Next]_vars =>
        [\A c \in Consumers : [Loop(c)!LoopNext]_(Loop(c)!loopVars)]_vars
  BY LoopStep DEF LoopSteps
<1> QED BY <1>1, <1>2, StoppedRestsStep, TypeInvariant, PTL DEF Spec, TasksRunTheLoop
=============================================================================
