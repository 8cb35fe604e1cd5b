SPECIFICATION FairSpec
CONSTANTS
  Cleaners = {"c1", "c2"}
  MaxEntries = 4
  Retries = 2
  Retention = TRUE
CHECK_DEADLOCK FALSE
INVARIANTS
  TypeOK
  Accounted
PROPERTIES
  ReceivedInOrder
  StreamProgresses
