SPECIFICATION FairSpec
CONSTANTS
  c1 = c1  c2 = c2  d = d  o = o  x = x
  None = None
  Conns <- MCConns
  Letters <- MCLetters
  Kind <- MCKind
CHECK_DEADLOCK FALSE
PROPERTIES
  WorkerGoesAway
