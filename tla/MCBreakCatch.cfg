\* BREAK at every point but the half-done ones; two frames, two nested runs.
SPECIFICATION FairSpec
CONSTANTS
  CATCH_MAX_DEPTH = 2
  GuardCell = 9
  StackCells = 23
  MaxNest = 2
  TextLen = 2
  MaxData = 1
  MaxBreaks = 2
  Shielded <- HalfSteps
INVARIANTS TypeOK NoOverrun SourceIsThisRuns CatchDepthIsActive PendingOnlyInSection
PROPERTIES CatchPromise DeferredBreakStops
