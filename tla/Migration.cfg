CONSTANTS
  n1 = n1
  n2 = n2
  p1 = p1
  p2 = p2
  Node = {n1, n2}
  Ncp = Ncp
  NodePolicy = {p1, p2}
  None = None
  Home <- MCHome
  Setups <- MCSetups
SPECIFICATION FairSpec
CONSTRAINT HandoverInPlace
INVARIANTS TypeOK MigratedPodsLabelled QuietUpgradesOver
PROPERTIES OrphansRequested UpgradeCompletes RetiredPolicyReleased
CHECK_DEADLOCK FALSE
