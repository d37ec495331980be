SPECIFICATION Spec
CONSTANTS
  n1 = n1
  n2 = n2
  n3 = n3
  n4 = n4
  f = f
  g = g
  p = p
  q = q
  r = r
  Settings <- MCSettings
  Providers <- MCProviders
  Disks <- MCDisks
INVARIANTS
  LastSourceWins
  ExitsForCause
