SPECIFICATION FairSession
CONSTANTS
  Kinds <- MCKinds
  MaxArtifacts = 2
  IdleLimit = 2
CHECK_DEADLOCK FALSE
INVARIANTS
  SessionTypeOK
  NothingLeftRunning
  ArtifactsDrained
PROPERTIES
  IdleOnlyWhenQuiet
  SessionEnds
