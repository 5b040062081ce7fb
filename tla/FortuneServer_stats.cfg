SPECIFICATION Spec
CONSTANTS
  Client = {c1, c2}
  Silent = {}
  NumCookies = 3
  Slots = 3
  MaxGiven = 2
  MaxKills = 0
INVARIANT NamedStatsTrue
