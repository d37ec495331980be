SPECIFICATION Spec
CONSTANTS
  HostList <- OneHost
  ConnectorHosts = {}
  Strangers = {}
  Clients = {c1, c2}
  Conns = {n1, n2, n3}
  NoConn = NoConn
  NoHost = NoHost
SYMMETRY ClientSymmetry
INVARIANTS
  TypeOK
  ZeroMeansSuccess
  PooledIsUp
  RightHost
  NoLeakedConn
