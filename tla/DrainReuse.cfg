CONSTANTS
  gpu = gpu
  Us = Us
  Others = {gpu}
  Setups <- SharedSetup
  Cancels = FALSE
  Turnaround = "afterPasses"
  MaxAsks = 1
  MaxFaults = 0
SPECIFICATION Spec
INVARIANT CompleteMeansDrained
