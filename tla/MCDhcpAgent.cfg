CONSTANTS
  n1 = n1
  s1 = s1
  s2 = s2
  p1 = p1
  i1 = i1
  i2 = i2
  Networks = {n1}
  Subnets = {s1, s2}
  Ports = {p1}
  Ips = {i1, i2}
  NetworkOf <- OneNetwork
  None = None
  Failing = {"call", "enable", "disable", "reload_allocations", "restart", "release_lease"}
  MaxFailures = 1
  MaxChanges = 4
  MaxCrashes = 1
CHECK_DEADLOCK FALSE
SPECIFICATION FairSpec
INVARIANTS TypeOK LookupsCover 
PROPERTIES Follows Recovers
