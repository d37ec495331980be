SPECIFICATION FairSpec
CONSTANTS
  HostList <- OneTwice
  ConnectorHosts = {"p"}
  Strangers = {"x"}
  Clients = {c1}
  Conns = {n1, n2}
  NoConn = NoConn
  NoHost = NoHost
INVARIANTS
  RightHost
  NoLeakedConn
PROPERTIES
  ImplementsService
  RequestsAnswered
