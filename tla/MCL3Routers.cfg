CONSTANTS
  r1 = r1
  r2 = r2
  p1 = p1
  p2 = p2
  f1 = f1
  f2 = f2
  n1 = n1
  e1 = e1
  n2 = n2
  sA = sA
  sB = sB
  sE = sE
  sC = sC
  hg = hg
  h1 = h1
  h2 = h2
  h3 = h3
  GatewayHost = hg
  Routers = {r1, r2}
  PortIds = {p1}
  FipIds = {f1}
  Networks = {n1, n2, e1}
  Externals = {e1}
  Subnets = {sA, sB, sC, sE}
  NetworkOf <- MCNetworkOf
  CidrOf <- MCCidrOf
  Hosts = {hg, h1, h2, h3}
  RouteLists <- MCRouteLists
  IpLists <- MCIpLists
  None = None
  Unset = Unset
SYMMETRY Symmetry
SPECIFICATION Spec
INVARIANTS TypeOK FipsConnected RouterSubnetsApart L3PortsOwned
PROPERTIES RoutesKept ChangesTold
