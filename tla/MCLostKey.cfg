SPECIFICATION AllSpec
CONSTANTS
  Cases <- MCCases
  Jobs = 2
  Setup <- MCSetup
  Lead <- MCLead
  Slow = 5
  Faults = 2
  N = 2
  Tasks = 2
  PoolFaults = 1
  Backlog = 1
  GapExit = FALSE
  NCases = 3
  TolJobs = 2
  Hears <- MCHears
  TolLead = 2
  Long = 1
  TolFaults = 3
INVARIANTS LostKeysAreRetried
