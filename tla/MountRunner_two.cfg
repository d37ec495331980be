SPECIFICATION NoUnmountSpec
CONSTANTS
  Runners = {r1, r2}
  None = None
  MountRetryCount = 2
  AliveFailureLimit = 2
  Overlap = TRUE
  SlowMounts = FALSE
SYMMETRY Symmetry
INVARIANT MountsAreRecorded
CHECK_DEADLOCK FALSE
