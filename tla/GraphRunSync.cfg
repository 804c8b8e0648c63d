SPECIFICATION Spec
CONSTANTS
  Nodes = {"a", "b", "c"}
  NoArg = "none"
  Args = {"x"}
  Vals = {1, 2}
  StartRoutes <- FanStart
  Routes <- FanRoutes
  Durability = "Sync"
  MaxConcurrency = 3
  MaxSteps = 2
  AllowParent = FALSE
  GeneratedIds = FALSE
  Commands <- GotoCommands
  Interrupting = {}
  Faults = {"handler", "restart", "put", "emitStored"}
  MaxFaults = 2
  MaxInvokes = 1
  MaxRuns = 2
  MaxPauses = 0
INVARIANT FinishedTasksStayFinished CheckpointIdsFresh
PROPERTY RecoverySafe
CHECK_DEADLOCK FALSE
