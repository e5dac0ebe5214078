SPECIFICATION FairSpec
CONSTANTS
  a = a
  b = b
  r = r
  aDeclared = aDeclared
  aOutside = aOutside
  bDeclared = bDeclared
  bOutside = bOutside
  bMoved = bMoved
  rEndpoint = rEndpoint
  ip1 = ip1
  ip2 = ip2
  ip3 = ip3
  Peer = {a, b, r}
  RelayNode = {r}
  Endpoint = {aDeclared, aOutside, bDeclared, bOutside, bMoved, rEndpoint}
  None = None
  Declared <- MCDeclared
  Mapped <- MCMappedReachable
  RelayAddress <- MCRelayAddress
  IpOf <- MCIpOf
  User = {a}
  Text = {t1}
  MaxNet = 1
  MaxDuplicates = 1
  MaxDisruptions = 2
PROPERTIES
  RelayLearns
  PeersFollow
