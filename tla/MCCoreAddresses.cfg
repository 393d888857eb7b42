CONSTANTS
  n1 = n1
  n2 = n2
  s1 = s1
  s2 = s2
  p1 = p1
  p2 = p2
  p3 = p3
  m1 = m1
  m2 = m2
  m3 = m3
  t1 = t1
  t2 = t2
  NetworkIds = {n1}
  SubnetIds = {s1, s2}
  PortIds = {p1, p2}
  Tenants = {t1}
  Macs = {m1, m2}
  Contexts <- OneAdmin
  Cidrs <- AddressCidrs
  GatewayIps <- AddressGateways
  PoolLists <- AddressPools
  FixedIpLists <- AddressRequests
  Unset = Unset
  MaxFixedIpsPerPort = 2
  AllowOverlappingIps = FALSE
  ForceGatewayOnSubnet = TRUE
SYMMETRY Symmetry
SPECIFICATION Spec
INVARIANTS TypeOK PoolPartition AllocationsResolve AddressesUnique GatewayNotOffered
