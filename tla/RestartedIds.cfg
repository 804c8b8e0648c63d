SPECIFICATION Spec
CONSTANTS
  Nodes = {"a", "b", "c"}
  NoArg = "none"
  Args = {}
  Vals = {1}
  StartRoutes <- DiamondStart
  Routes <- DiamondRoutes
  Durability = "Async"
  MaxConcurrency = 2
  MaxSteps = 2
  AllowParent = FALSE
  GeneratedIds = TRUE
  Commands <- NoCommands
  Interrupting = {}
  Faults = {"handler", "restart"}
  MaxFaults = 2
  MaxInvokes = 1
  MaxRuns = 2
  MaxPauses = 0
INVARIANT CheckpointIdsFresh
CHECK_DEADLOCK FALSE
