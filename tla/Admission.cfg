CONSTANTS
  n1 = n1
  n2 = n2
  p1 = p1
  p2 = p2
  Node = {n1, n2}
  Label = {"a", "b"}
  Section = {"ofed", "rdma"}
  Ofed = "ofed"
  Ncp = Ncp
  NodePolicy = {p1, p2}
  None = None
  Setups <- MCSetups
SPECIFICATION FairSpec
INVARIANTS TypeOK SectionsExclusive SelectorsDisjoint QuietPoliciesInForce
PROPERTIES OverlapReported OverlapResolves
CHECK_DEADLOCK FALSE
