SPECIFICATION FairSpec
CONSTANTS
  i1 = i1
  i2 = i2
  None = None
  Instances <- OneInstance
  Tags <- ThreeTags
  Msgs <- LiveMsgs
  QueueOf <- LiveQueueOf
  Malformed <- LiveMalformed
  MaxAttempts = 2
  Faults <- LostFaults
PROPERTIES
  LostConnectionEndsTasks
CHECK_DEADLOCK FALSE
