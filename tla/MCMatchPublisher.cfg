SPECIFICATION Spec
CONSTANTS
  Worker = {w1, w2}
  NoJob = NoJob
  MaxRequest = 2
  Unrepresentable = {}
  Size <- Uniform
  MaximumResults = 2
  MaximumPayloadBytes = 2
  MaxTries = 1
  MaxAttempts = 3
  MaxFaults = 1
  MaxForks = 1
  MaxExpiries = 1
SYMMETRY Symmetry
INVARIANTS
  TypeOK
  OneBatchPerRequest
  PublishedIsIrreversible
  AttemptsAreFenced
  UnclaimedIsUnderWay
CHECK_DEADLOCK FALSE
