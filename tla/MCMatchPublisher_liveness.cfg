SPECIFICATION Spec
CONSTANTS
  Worker = {w1, w2}
  NoJob = NoJob
  MaxRequest = 2
  Unrepresentable = {}
  Size <- Oversized
  MaximumResults = 2
  MaximumPayloadBytes = 2
  MaxTries = 1
  MaxAttempts = 2
  MaxFaults = 1
  MaxForks = 1
  MaxExpiries = 0
PROPERTY
  RequestsGetPublished
CHECK_DEADLOCK FALSE
