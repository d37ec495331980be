SPECIFICATION Spec
CONSTANTS
  Paths = {"d", "g"}
  Root = Root
  Ancestors <- MCAncestors
  Rank <- MCRank
  Contents = {"a", "b"}
  Original <- MCDifferent
  Stamps = {0}
  Workers = {w1, w2, w3}
  MaxParallel = 2
  Bidirectional = FALSE
  Remote = {"left"}
  EditSides = {"left"}
  EditDuringCycle = TRUE
  Interrupts = TRUE
  MaxEdits = 1
  MaxFails = 1
INVARIANTS
  OkMeansSynced
SYMMETRY WorkerSymmetry
