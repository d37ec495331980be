SPECIFICATION FairSpec
CONSTANTS
  Clis = {c1}
  Daemons = {d1, d2, d3}
  None = None
  Torn = Torn
  Modes = {"ensure", "replace", "exec", "close"}
  LateClose = FALSE
INVARIANTS
  RecordNamesConnected
  SingleHandle
  Reachable
PROPERTIES
  CliEnds
\* All daemons may be gone and no command line running: the system may stop.
CHECK_DEADLOCK FALSE
