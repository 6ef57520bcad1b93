SPECIFICATION HttpSpec
CONSTANTS
  Statuses <- SomeStatuses
  Bodies = {"null", "json", "text", "empty", "binary", "cut"}
  Keys <- SomeKeys
  KeyLength = 2
INVARIANT
  BacktraceIsShown
CHECK_DEADLOCK FALSE
