CONSTANTS
  Namespace <- MCNamespace
  Config = {1, 2}
  MaxEdits = 3
  MaxFaults = 1
SPECIFICATION FairSpec
INVARIANTS TypeOK QuietNetworkDeployed FormerNadsGone
PROPERTY NetworkSettles
CONSTRAINT Bounded
CHECK_DEADLOCK FALSE
