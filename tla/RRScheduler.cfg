CONSTANTS
  MaxThread = 4
  MaxTime = 2
SPECIFICATION FairSpec
INVARIANTS
  ListHoldsOrder
PROPERTIES
  ImplementsScheduler
  QueuedIsServed
