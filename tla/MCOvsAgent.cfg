CONSTANTS
  n1 = n1
  n2 = n2
  p1 = p1
  p2 = p2
  Networks = {n1, n2}
  Ports = {p1, p2}
  NetworkOf <- Together
  Vlans = {1, 2}
  Loop = Loop
  Workers = {w}
  Untagged = Untagged
  DeadVlan = DeadVlan
  None = None
  Faults = {"call", "crash", "command"}
  MaxChanges = 4
  MaxFaults = 1
SPECIFICATION FairSpec
INVARIANT VlansApart
 
