SPECIFICATION Spec
CONSTANTS
  o1 = o1  o2 = o2  b1 = b1  b2 = b2  r1 = r1  r2 = r2
  None = None
  Operators <- MCOperators
  Branches <- MCBranches
  Runtimes <- MCRuntimes
  Percents <- MCPercents
  MaxUpdates = 2
SYMMETRY Sym
CHECK_DEADLOCK FALSE
INVARIANTS
  TypeOK
PROPERTIES
  TrueReadingsKept
  EndServesChosen
