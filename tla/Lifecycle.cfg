CONSTANTS
  Runs = {r1, r2}
  Drainers = {d1}
  Stoppers = {x1}
  Capacity = 1
SPECIFICATION FairSpec

  
  
PROPERTIES
  NothingStartsAfterDrain
  
CHECK_DEADLOCK FALSE
