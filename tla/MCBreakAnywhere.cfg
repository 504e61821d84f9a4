\* The ROM as it is: BREAK at every point.
SPECIFICATION Spec
CONSTANTS
  CATCH_MAX_DEPTH = 2
  GuardCell = 9
  StackCells = 17
  MaxNest = 1
  TextLen = 2
  MaxData = 1
  MaxBreaks = 1
  Shielded = {}
INVARIANT SourceIsThisRuns
