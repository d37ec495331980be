SPECIFICATION ManagerSpec
CONSTANTS
  MaxPages = 3
  MaxPanes = 5
INVARIANTS
  ListNamesPages
  KeyOncePerPane
  SessionsReachable
PROPERTY
  StopsWhenDone
