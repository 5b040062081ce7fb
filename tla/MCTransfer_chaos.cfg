SPECIFICATION Spec
CONSTANTS
  a = a
  b = b
  Source = {a, b}
  Count <- CountLongPair
  Unclean <- AllClean
  Concurrent = TRUE
  Capacity = 4
  MaxFaults <- Everything
CHECK_DEADLOCK FALSE
INVARIANTS InOrderPerSource NoSegmentTwice
