SPECIFICATION FairSpec
CONSTANTS
  MaxOut = 3
  MaxEvents = 1
INVARIANTS
  OutputOnce
  InputNumbered
PROPERTY
  SessionEnds
