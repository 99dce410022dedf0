CONSTANTS
  n1 = n1
  n2 = n2
  q1 = q1
  Node = {n1, n2}
  Nic = {n1}
  Ncp = Ncp
  Policy = {q1}
  NoPod = NoPod
  Selects <- SelectsFirst
  Setups <- NodePolicyEdits
SPECIFICATION Spec
INVARIANT QuietFreeNodeOpen
