SPECIFICATION Spec
CONSTANTS
  Nodes = {"a", "b", "c"}
  NoArg = "none"
  Args = {}
  Vals = {1}
  StartRoutes <- DiamondStart
  Routes <- DiamondRoutes
  Durability = "Async"
  MaxConcurrency = 2
  MaxSteps = 2
  AllowParent = FALSE
  GeneratedIds = FALSE
  Commands <- NoCommands
  Interrupting = {}
  Faults = {"schema"}
  MaxFaults = 1
  MaxInvokes = 1
  MaxRuns = 1
  MaxPauses = 0
PROPERTY FailuresReturned
CHECK_DEADLOCK FALSE
