SPECIFICATION FairSpec
CONSTANTS
  Runners = {r1, r2}
  None = None
  MountRetryCount = 2
  AliveFailureLimit = 2
  Overlap = FALSE
  SlowMounts = FALSE
INVARIANTS LeavesNothing UnmountCleans
PROPERTY LostIsUnmounted
