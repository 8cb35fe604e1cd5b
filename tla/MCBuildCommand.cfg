SPECIFICATION FairSpec
CONSTANTS
  ci = ci
  terminal = terminal
  Invocations <- MCInvocations
  Options <- MCOptions
  Projects <- MCProjects
  MaxVersionCode = 3
  MaxAttempts = 2
CHECK_DEADLOCK FALSE
INVARIANTS
  BuildTypeOK
  VersionsDistinct
  ExitTellsOutcome
PROPERTIES
  WaitEnds
