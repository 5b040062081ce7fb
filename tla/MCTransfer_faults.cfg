SPECIFICATION FairSpec
CONSTANTS
  a = a
  b = b
  Source = {a, b}
  Count <- CountFourThree
  Unclean <- NulInFirst
  Concurrent = FALSE
  Capacity = 8
  MaxFaults <- DamageAndLoss
CHECK_DEADLOCK FALSE
INVARIANTS FileIntegrity Lockstep StallCause
PROPERTIES Implements Completes
