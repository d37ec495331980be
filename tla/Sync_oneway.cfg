SPECIFICATION FairSpec
CONSTANTS
  Paths = {"d", "f", "g"}
  Root = Root
  Ancestors <- MCAncestors
  Rank <- MCRank
  Contents = {"a", "b"}
  Original <- MCDifferent
  Stamps = {0}
  Workers = {w1, w2}
  MaxParallel = 2
  Bidirectional = FALSE
  Remote = {"right"}
  EditSides = {"left"}
  EditDuringCycle = TRUE
  Interrupts = TRUE
  MaxEdits = 1
  MaxFails = 1
INVARIANTS
  OkMeansSynced
PROPERTIES
  OnlyExtrasGo
  CycleEnds
  DaemonMends
