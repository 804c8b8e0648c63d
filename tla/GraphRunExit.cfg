SPECIFICATION FairSpec
CONSTANTS
  Nodes = {"a", "b", "c"}
  NoArg = "none"
  Args = {}
  Vals = {1}
  StartRoutes <- LooseStart
  Routes <- DiamondRoutes
  Durability = "Exit"
  MaxConcurrency = 1
  MaxSteps = 1
  AllowParent = TRUE
  GeneratedIds = FALSE
  Commands <- LastCommands
  Interrupting = {"a"}
  Faults = {"handler", "badWrite", "cancel", "restart", "put", "schema", "emitStart", "emitNode", "emitStored", "emitAsked", "emitEnd", "apply", "router"}
  MaxFaults = 2
  MaxInvokes = 1
  MaxRuns = 1
  MaxPauses = 2
INVARIANT ResultMatchesThread InterruptsAnswerable
PROPERTY ThreadCompletes
CHECK_DEADLOCK FALSE
