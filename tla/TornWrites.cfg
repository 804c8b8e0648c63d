SPECIFICATION Spec
CONSTANTS
  Callers = {p}
  Places <- MCPlaces
  Checkpoints <- QuickCheckpoints
  Writes = {"v", "w"}
  Requests <- QuickRequests
  Found <- QuickFound
  None = None
  MaxCalls = 2
  MaxStops = 1
INVARIANT PendingWritesComplete
CHECK_DEADLOCK FALSE
