SPECIFICATION Spec
CONSTANTS
  Scenarios <- AllScenarios
  MaxRuns = 2
  MaxLen = 2
  MaxPID = 6
  MaxResets = 1
INVARIANTS
  PredictionFollowed
  CompleteMeansAll
  OwnProcesses
PROPERTY SimulationEnds
CHECK_DEADLOCK FALSE
