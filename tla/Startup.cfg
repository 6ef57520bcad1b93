SPECIFICATION FairStartupSpec
CONSTANTS
  Required = {"host", "url", "key"}
  Optional = {"sentry"}
  Sources <- SomeSources
  Instances <- TwoInstances
  MaxFaults = 2
INVARIANTS
  StartupTypeOK
  ErrorsAreRoutable
  StrongestLayerWins
PROPERTY
  EventuallyRuns
CHECK_DEADLOCK FALSE
