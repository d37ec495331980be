SPECIFICATION ShellSpec
CONSTANTS
  d = d
  c = c
  k = k
  x = x
  Here = Here
  All = All
  Connects <- MCConnects
  Kind <- MCKind
  Typed <- MCTargets
  MaxOut = 2
  Window = 1
  MaxConnected = 2
  Quick = TRUE
INVARIANT
  RunsWhereTyped
CHECK_DEADLOCK FALSE
