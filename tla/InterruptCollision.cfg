SPECIFICATION Spec
CONSTANTS
  Nodes = {"a", "b"}
  NoArg = "none"
  Args = {}
  Vals = {1}
  StartRoutes <- DiamondStart
  Routes <- ChainRoutes
  Durability = "Async"
  MaxConcurrency = 2
  MaxSteps = 2
  AllowParent = FALSE
  GeneratedIds = FALSE
  Commands <- NoCommands
  Interrupting = {"b"}
  Faults = {}
  MaxFaults = 2
  MaxInvokes = 1
  MaxRuns = 2
  MaxPauses = 2
INVARIANT InterruptsAnswerable
CHECK_DEADLOCK FALSE
