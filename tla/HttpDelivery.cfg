SPECIFICATION HttpSpec
CONSTANTS
  Statuses <- SomeStatuses
  Bodies = {"null", "json", "text", "empty", "binary", "cut"}
  Keys <- SomeKeys
  KeyLength = 2
INVARIANTS
  HttpTypeOK
  MalformedIsUnsent
  SuccessIsProcessed
  OnlySignedLeaves
  LogLevelIsHarmless
  KeyDigitsSign
  PrefixedKeyIsAnotherKey
  LogTellsTheCause
CHECK_DEADLOCK FALSE
