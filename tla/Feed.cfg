SPECIFICATION FairSpec
CONSTANTS
  Rows <- MCRows
  Early <- MCEarly
  Hits <- MCHits
  Limit = 2
  Clients = {1, 2}
  MaxChanges = 3
  MaxFaults = 1
CHECK_DEADLOCK FALSE
INVARIANTS
  WalkIsComplete
  ChangesAreContiguous

  
