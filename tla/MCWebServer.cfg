SPECIFICATION Spec
CONSTANTS
  Client = {c1, c2}
  Silent = {c2}
  Request <- Requests
  Page = {"/JLH.jpg", "/default.html", "/list.c"}
  Limits = {1, 2, 3}
  MaxKills = 1
  MaxChanges = 1
CHECK_DEADLOCK FALSE
INVARIANTS OwnAnswer DiesOnlyOf
PROPERTY Answered
