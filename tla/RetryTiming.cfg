SPECIFICATION FairTimingSpec
CONSTANTS
  Delays <- CodeDelays
  Before <- CodeBefore
  Limits <- CodeLimits
  Latency <- CodeLatency
  MaxRounds = 3
INVARIANTS
  TimingTypeOK
  BackoffSpent
  AttemptsFit
  ParkingNeedsTime
PROPERTIES
  RunsTheLoop
  HandlerEnds
CHECK_DEADLOCK FALSE
