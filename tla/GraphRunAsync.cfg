SPECIFICATION Spec
CONSTANTS
  Nodes = {"a", "b", "c"}
  NoArg = "none"
  Args = {}
  Vals = {1}
  StartRoutes <- DiamondStart
  Routes <- DiamondRoutes
  Durability = "Async"
  MaxConcurrency = 2
  MaxSteps = 1
  AllowParent = TRUE
  GeneratedIds = FALSE
  Commands <- BranchCommands
  Interrupting = {"a", "b"}
  Faults = {"handler", "cancel", "restart", "put", "schema", "emitStart", "emitStored", "emitAsked"}
  MaxFaults = 2
  MaxInvokes = 1
  MaxRuns = 1
  MaxPauses = 1
INVARIANT TypeOK FinishedTasksStayFinished ResultMatchesThread InterruptsAnswerable
PROPERTY RecoverySafe
CHECK_DEADLOCK FALSE
