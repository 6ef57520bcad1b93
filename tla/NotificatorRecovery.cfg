SPECIFICATION Spec
CONSTANTS
  i1 = i1
  i2 = i2
  None = None
  Instances <- OneInstance
  Tags <- ThreeTags
  Msgs <- RecoveryMsgs
  QueueOf <- RecoveryQueueOf
  Malformed <- NoMalformed
  MaxAttempts = 2
  Faults <- RecoveryFaults
INVARIANTS
  NoSilentLoss
  CleanOnce
PROPERTIES
  TasksRunTheLoop
  ImplementsLedger
CHECK_DEADLOCK FALSE
