SPECIFICATION AmountSpec
CONSTANTS
  Decimals = 1
  MaxValue = 1023
  Numerics <- SmallNumerics
INVARIANTS
  OverflowIsAnError
CHECK_DEADLOCK FALSE
