SPECIFICATION Spec
CONSTANTS
  i1 = i1
  i2 = i2
  None = None
  Instances <- OneInstance
  Tags <- ThreeTags
  Msgs <- PoisonMsgs
  QueueOf <- PoisonQueueOf
  Malformed <- PoisonMalformed
  MaxAttempts = 2
  Faults <- PoisonFaults
INVARIANTS
  TypeOK
  InOrder
  LossesHaveCauses
  PoisonBlocksQueue

\* After a lost connection, with no crash left, the system stops.
CHECK_DEADLOCK FALSE
