SPECIFICATION ManagerSpec
CONSTANTS
  MaxPages = 3
  MaxPanes = 4
INVARIANT
  BroadcastStaysOnPage
