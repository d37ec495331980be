SPECIFICATION FairSpec
CONSTANTS
  Hosts = {h1, h2}
  Walk <- MCWalk
  Dirs = {"d", "e", "s"}
  Above <- MCAbove
  MaxParallel = 2
  MaxWorkers = 2
  MaxFails = 1
INVARIANTS
  FilesArrive
  ArrivesInPlace
  QuietAtEnd
PROPERTY
  CommandEnds
