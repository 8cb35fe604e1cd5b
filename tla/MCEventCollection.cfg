SPECIFICATION FairSpec
CONSTANTS
  f1 = f1  f2 = f2
  Files = {f1, f2}
  Slots = {1, 2}
  Records <- MCRecords
  MaxTruncations = 1
  MaxFailures = 1
CHECK_DEADLOCK FALSE
INVARIANTS
  TypeOK
  EventsOnce
  CompleteWhenStopped
PROPERTIES
  CollectionGoesOn
