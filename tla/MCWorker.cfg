SPECIFICATION Spec
CONSTANTS
  c1 = c1  c2 = c2  d1 = d1  d2 = d2  q = q  a1 = a1
  None = None
  Conns <- MCConns
  Letters <- MCLetters
  Kind <- MCKind
SYMMETRY Sym
CHECK_DEADLOCK FALSE
INVARIANTS
  TypeOK
  OneLauncherServed
  LastHeardIsStatus
  OneResultTold
