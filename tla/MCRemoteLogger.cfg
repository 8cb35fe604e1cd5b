SPECIFICATION FairSpec
CONSTANTS
  Ticks = {"tick1", "tick2", "tick3"}
  MaxLines = 3
  None = None
CHECK_DEADLOCK FALSE
INVARIANTS
  TypeOK
  NothingLostOrRepeated
PROPERTIES
  PublishesLog
  StreamProgresses
