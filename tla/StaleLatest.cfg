SPECIFICATION Spec
CONSTANTS
  Callers = {p}
  Places <- MCPlaces
  Checkpoints <- QuickCheckpoints
  Writes = {"v", "w"}
  Requests <- QuickRequests
  Found <- QuickFound
  None = None
  MaxCalls = 3
  MaxStops = 0
INVARIANT LatestIsNotSuperseded
CHECK_DEADLOCK FALSE
