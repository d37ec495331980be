SPECIFICATION ShellSpec
CONSTANTS
  d = d
  c = c
  k = k
  x = x
  Here = Here
  All = All
  Connects <- MCConnects
  Kind <- MCKind
  Typed <- MCTyped
  MaxOut = 2
  Window = 1
  MaxConnected = 2
  Quick = TRUE
INVARIANT
  SurvivesLateInterrupt
CHECK_DEADLOCK FALSE
