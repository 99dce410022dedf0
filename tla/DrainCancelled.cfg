CONSTANTS
  gpu = gpu
  Us = Us
  Others = {}
  Setups <- SharedSetup
  Cancels = TRUE
  Turnaround = "afterPasses"
  MaxAsks = 0
  MaxFaults = 0
SPECIFICATION FairSpec
PROPERTY IdleNodeReleased
