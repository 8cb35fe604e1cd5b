SPECIFICATION Spec
CONSTANTS
  Runners <- MCRunners
  Phases <- MCPhases
  Unmarked <- MCUnmarked
  Plan <- MCPlan
  Marking <- MCMarking
  Names = {x}
  MaxWrites = 2
  NoPhase = NoPhase
INVARIANT TypeOK
INVARIANT LogWellFormed
PROPERTY PhasesHandOver
