CONSTANTS
  n1 = n1
  n2 = n2
  p1 = p1
  p2 = p2
  Node = {n1, n2}
  Ncp = Ncp
  NodePolicy = {p1, p2}
  None = None
  Home <- MCHome
  Setups <- MCOneFault
SPECIFICATION Spec
PROPERTY NcpCleanupScoped
CHECK_DEADLOCK FALSE
