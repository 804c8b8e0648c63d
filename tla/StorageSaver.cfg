SPECIFICATION Spec
CONSTANTS
  Callers = {p, q}
  Places <- MCPlaces
  Checkpoints <- MCCheckpoints
  Writes = {"v", "w"}
  Requests <- MCRequests
  Found <- MCFound
  None = None
  MaxCalls = 3
  MaxStops = 1
SYMMETRY CallerSymmetry
INVARIANTS
  LatestIsCurrent
  
  DeletionComplete
PROPERTIES
  PruneKeepsNewest
  CopyShowsSource
CHECK_DEADLOCK FALSE
