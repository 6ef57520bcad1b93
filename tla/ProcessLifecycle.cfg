SPECIFICATION FairLifecycleSpec
CONSTANTS
  WorkQueues = {"pushes", "callbacks", "emails"}
  Connections = {1, 2}
  MaxFaults = 3
INVARIANT
  LifecycleTypeOK
PROPERTIES
  OutageHeals
  ExitsOnlyWhenIdle
  RequestsAnswered
CHECK_DEADLOCK FALSE
