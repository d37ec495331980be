SPECIFICATION FairSpec
CONSTANTS
  Terms = {1, 2}
  None = None
  MaxOut = 3
  MaxKeys = 3
  ReadMax = 1
  MaxBuf = 2
  WireCap = 1
INVARIANTS
  NothingLost
  OnlyReplayIsOvertaken
  BufferIsTail
  SessionPersists
  KeysArrive
PROPERTY
  DaemonEnds
