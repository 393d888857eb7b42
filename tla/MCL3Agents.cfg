CONSTANTS
  Routers = {r1}
  Hosts = {h1, h2}
  Ports = {p1}
  Gateways = {g1, g2}
  None = None
  Faulty = {h1}
  Faults = {"lapse", "call", "delete", "crash"}
  MaxChanges = 2
  MaxFaults = 2
SPECIFICATION Spec
CHECK_DEADLOCK FALSE
INVARIANTS TypeOK OneHost
PROPERTIES Follows Withdrawn
