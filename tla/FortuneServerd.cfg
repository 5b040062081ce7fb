SPECIFICATION FairSpec
CONSTANTS
  Client = {c1, c2, c3}
  NumCookies = 2
  Slots = 2
  MAX_REQ = 2
  MaxKills = 1
CHECK_DEADLOCK FALSE
INVARIANTS NoStatistics TurnedAwayLate
PROPERTY Heard
