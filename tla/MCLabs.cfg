SPECIFICATION Spec
CONSTANTS
  User = {"u1", "u2"}
  Shadow <- RshShadow
  Account = {"x", "e"}
  Typed <- RshTyped
  MaxTries = 2
  MaxProc = 3
  Peer = {"c1", "c2"}
  Long = {"c2"}
  NumBlocks = 3
  Quotes = 4
  Texts <- ReflTexts
  Size = 6
  Garbage = {0, 7}
  HeaderSum = 4711
  MaxSends = 2
  N = 5
  Content = {"a", "b", "c", "d", "e"}
  Distance = 3
  HOPLIMIT = 5
  MaxForeign = 2
  MaxText = 5
  MaxIndex = 3
  Name <- Names
  Password = {"p", "q"}
  Begins <- NamePrefixes
  PasswdFile <- PasswdNames
  NoShell = {"m"}
  FirstShadow <- ShadowTokens
  Tool = {"k1", "k2", "k3"}
  None = "nobody"
  Ulong = 24
  cm_width = 16
  cm_poly <- Polynomial
  Message <- Files
CHECK_DEADLOCK FALSE
INVARIANTS Processes EchoRight PrintedOnce DotNoticed ListRight RouteTrue CookieRight ShadowIntact DamageSeen CrcRight
PROPERTIES LoginAnswered Ends LetIn
