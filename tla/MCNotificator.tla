--------------------------- MODULE MCNotificator ----------------------------
(***************************************************************************)
(* Small instances of Notificator for TLC.                                 *)
(***************************************************************************)
EXTENDS Notificator, TLC

CONSTANTS i1, i2

OneInstance == {i1}

TwoInstances == {i1, i2}

\* Nothing distinguishes the two instances.
InstanceSymmetry == Permutations(TwoInstances)

\* One spare tag more than Prefetch and a frame in flight can use.
ThreeTags == 1..3

\* A fault budget: one fault of every kind in K.
OneOf(K) == [k \in FaultKinds |-> IF k \in K THEN 1 ELSE 0]

NoMalformed == {}

\* Poison: two good callbacks, whose order is at stake, then a malformed one,
\* and a good one behind it.
PoisonMsgs == 1..4
PoisonQueueOf == [m \in PoisonMsgs |-> "callbacks"]
PoisonMalformed == {3}
PoisonFaults == OneOf(FaultKinds \ {"broker"})

\* Recovery: one callback and one push, every kind of fault.
RecoveryMsgs == 1..2
RecoveryQueueOf == [m \in RecoveryMsgs |-> IF m = 1 THEN "callbacks" ELSE "pushes"]
RecoveryFaults == OneOf(FaultKinds)

\* Rollout: two callbacks of one queue, two instances, every kind of fault
\* that may make them repeat a callback, but a restart of the broker.
RolloutMsgs == 1..2
RolloutQueueOf == [m \in RolloutMsgs |-> "callbacks"]
RolloutFaults == OneOf({"timeout", "answer", "connection", "crash"})

\* Liveness: a malformed e-mail, good callbacks and a push.
LiveMsgs == 1..3
LiveQueueOf ==
  [m \in LiveMsgs |-> IF m = 1 THEN "emails" ELSE IF m = 2 THEN "callbacks" ELSE "pushes"]
LiveMalformed == {1}
LiveFaults == OneOf({"timeout", "publish", "crash", "answer"})
LostFaults == OneOf({"timeout", "connection", "crash"})
=============================================================================
