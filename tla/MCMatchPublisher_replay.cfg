SPECIFICATION Spec
CONSTANTS
  Worker = {w1}
  NoJob = NoJob
  MaxRequest = 1
  Unrepresentable = {}
  Size <- Uniform
  MaximumResults = 2
  MaximumPayloadBytes = 2
  MaxTries = 1
  MaxAttempts = 3
  MaxFaults = 0
  MaxForks = 1
  MaxExpiries = 0
PROPERTY
  IrreversibilityPublishes
CHECK_DEADLOCK FALSE
