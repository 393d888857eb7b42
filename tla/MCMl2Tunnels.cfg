CONSTANTS
  pA = pA
  n1 = n1
  n2 = n2
  n3 = n3
  None = None
  Networks = {n1, n2, n3}
  Physnets = {pA}
  Ids = {1, 2, 3}
  Configs <- Three
  MaxSegments = 2
SYMMETRY Symmetry
SPECIFICATION Spec
INVARIANT TunnelsFree
