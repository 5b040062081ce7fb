SPECIFICATION FairSpec
CONSTANTS
  Client = {c1, c2}
  Silent = {c2}
  NumCookies = 3
  Slots = 3
  MaxGiven = 4
  MaxKills = 1
CHECK_DEADLOCK FALSE
INVARIANTS EntriesDiffer EveryCookieCounted StatsTrue
PROPERTY Served
