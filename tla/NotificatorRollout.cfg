SPECIFICATION Spec
CONSTANTS
  i1 = i1
  i2 = i2
  None = None
  Instances <- TwoInstances
  Tags <- ThreeTags
  Msgs <- RolloutMsgs
  QueueOf <- RolloutQueueOf
  Malformed <- NoMalformed
  MaxAttempts = 1
  Faults <- RolloutFaults
INVARIANTS
  SettlesWhatItHolds
  OneHandler
  SafetyInv
  RepetitionsHaveCauses
SYMMETRY InstanceSymmetry
CHECK_DEADLOCK FALSE
