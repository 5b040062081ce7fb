SPECIFICATION Spec
CONSTANTS
  a = a
  b = b
  Source = {a, b}
  Count <- CountLongShort
  Unclean <- AllClean
  Concurrent = FALSE
  Capacity = 8
  MaxFaults <- KillOnly
CHECK_DEADLOCK FALSE
INVARIANT DiffIsEmpty
