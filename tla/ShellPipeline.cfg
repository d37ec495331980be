SPECIFICATION FairShellSpec
CONSTANTS
  d = d
  c = c
  k = k
  x = x
  Here = Here
  All = All
  Connects <- MCConnects
  Kind <- MCKind
  Typed <- MCTyped
  MaxOut = 2
  Window = 1
  MaxConnected = 2
  Quick = TRUE
INVARIANTS
  NothingCut
  SurvivesInterrupt
  RunsWhereTyped
PROPERTY
  PromptReturns
\* One line is typed; after it, or when it hangs, nothing is left to do.
CHECK_DEADLOCK FALSE
