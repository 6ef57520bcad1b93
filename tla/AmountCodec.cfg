SPECIFICATION AmountSpec
CONSTANTS
  Decimals = 1
  MaxValue = 1023
  Numerics <- SmallNumerics
INVARIANTS
  RoundTrip
  ExactOrError
CHECK_DEADLOCK FALSE
