CONSTANTS
  np = np
  Ncp = Ncp
  NodePolicy = {np}
  Setups <- MCSetups
SPECIFICATION FairSpec
INVARIANTS TypeOK QuietStatusTruthful
PROPERTIES PromiseKept SettlesReady
CHECK_DEADLOCK FALSE
