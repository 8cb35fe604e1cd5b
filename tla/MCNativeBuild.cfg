SPECIFICATION Spec
CONSTANTS
  PhasesOf <- MCPhasesOf
  Entries <- MCEntries
  NoError = NoError
INVARIANT TypeOK
INVARIANT EnvComplete
INVARIANT ReportsFirstError
INVARIANT CleanUpRuns
