SPECIFICATION Spec
CONSTANTS
  a = a
  b = b
  r = r
  aDeclared = aDeclared
  aOutside = aOutside
  bDeclared = bDeclared
  bOutside = bOutside
  bMoved = bMoved
  rEndpoint = rEndpoint
  ip1 = ip1
  ip2 = ip2
  ip3 = ip3
  Peer = {a, b, r}
  RelayNode = {r}
  Endpoint = {aDeclared, aOutside, bDeclared, bOutside, bMoved, rEndpoint}
  None = None
  Declared <- MCDeclared
  Mapped <- MCMapped
  RelayAddress <- MCRelayAddress
  IpOf <- MCIpOf
  User = {a, b}
  Text = {t1}
  MaxNet = 2
  MaxDuplicates = 1
  MaxDisruptions = 1
SYMMETRY MCSymmetry
INVARIANTS
  TypeOK
  LearnedFromPeer
  RelayKnowsOutside
  NoForwardingLoop
PROPERTY
  ImplementsDelivery
