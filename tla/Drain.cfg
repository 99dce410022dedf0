CONSTANTS
  gpu = gpu
  Us = Us
  Others = {gpu}
  Setups <- AllSetups
  Cancels = FALSE
  Turnaround = "afterRemoval"
  MaxAsks = 2
  MaxFaults = 1
SPECIFICATION FairSpec
INVARIANTS TypeOK CompleteMeansDrained IdleMeansReleased QuietRequestAnswered
PROPERTIES OthersKeepTheirPlace DrainCompletes IdleNodeReleased
