SPECIFICATION Spec
CONSTANTS
  a1 = a1
  a2 = a2
  a3 = a3
  a4 = a4
  b2 = b2
  b3 = b3
  e1 = e1
  e2 = e2
  Block = {a1, a2, a3, a4, b2, b3}
  NoBlock = NoBlock
  Tip = {a1, a2, b3, a4}
  Path <- ForkTree
  Timestamp <- ForkTimes
  Event = {e1, e2}
  NoEvent = NoEvent
  EventOf <- ForkEvents
  TransactionOf <- ForkTransactions
  MaxBlocksPerRun = 2
  MaxReorgDepth = 2
  MaxFailures = 2
INVARIANTS
  TypeOK
  CurrentIsOneChain
  FinalIsIrreversible
  EventsFollowTheChain
PROPERTIES
  CatchesUpUnlessBarred
  EventLifecycle
