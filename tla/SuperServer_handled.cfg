SPECIFICATION FairSpec
CONSTANTS
  TimeClient = {t1}
  EchoClient = {e1}
  WhoClient = {w1}
  MaxProc = 3
  Rooms = {3}
  Mortal = {}
  Silent = {}
  MayType = FALSE
CHECK_DEADLOCK FALSE
PROPERTY RequestHandled
