SPECIFICATION FairSpec
CONSTANTS
  Calls = 6
  Size <- Texts
  Start <- TextStart
  Capacity = 3
  MayDie = {"writer", "reader"}
CHECK_DEADLOCK FALSE
INVARIANTS InStep ShortOnlyIfKilled
PROPERTIES NobodyHangs GetsThrough
