SPECIFICATION Spec
CONSTANTS
  Paths = {"d", "f"}
  Root = Root
  Ancestors <- MCAncestors
  Rank <- MCRank
  Contents = {"a", "b", "c"}
  Original <- MCOriginal
  Stamps = {1, 2}
  Workers = {w1, w2, w3}
  MaxParallel = 2
  Bidirectional = TRUE
  Remote = {"right"}
  EditSides = {"left", "right"}
  EditDuringCycle = FALSE
  Interrupts = FALSE
  MaxEdits = 1
  MaxFails = 1
SYMMETRY WorkerSymmetry
INVARIANTS
  NewestNeverLost
