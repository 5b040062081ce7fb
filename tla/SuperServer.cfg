SPECIFICATION FairSpec
CONSTANTS
  TimeClient = {t1, t2}
  EchoClient = {e1}
  WhoClient = {w1}
  MaxProc = 4
  Rooms = {1, 2}
  Mortal = {e1}
  Silent = {e1}
  MayType = TRUE
CHECK_DEADLOCK FALSE
INVARIANT HeldOnce
PROPERTIES TimeAnswered ServedWithoutTime
