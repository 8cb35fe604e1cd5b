SPECIFICATION Spec
CONSTANTS
  a = a  b1 = b1  b2 = b2  x = x  h1 = h1  h2 = h2  ho = ho  c = c  co = co
  eb1 = eb1  eb2 = eb2  ex = ex  eh = eh  H = H  K = K  S = S
  NoError = NoError
  N = 3
  Steps <- MCSteps
  Anchor <- MCAnchor
  Entries <- MCEntries
  EntrySteps <- MCEntrySteps
  Hooks <- MCHooks
  Scopes <- MCScopes
  ScopeChain <- MCScopeChain
  OutputNodes <- MCOutputNodes
  Children <- MCChildren
  StepIfs <- MCStepIfs
  EntryIfs <- MCEntryIfs
  ScopeIfs <- MCScopeIfs
INVARIANTS
  TypeOK
  RejectsWithFirstError
  HooksFollowAnchor
PROPERTIES
  DecidedOnce
