CONSTANTS
  Attempts = {a1}
  NoAttempt = none
  Results = {r1}
  NoResult = noresult
  MaxEvents = 3
  MaxRecords = 4
  MaxFrames = 20
  MaxEpoch = 3
  MaxFaults = 1
SPECIFICATION Spec
INVARIANTS
  RefusedOnlyWhenTorn
  MemoryIsDurable
  DeletedLeavesNothing
PROPERTIES
  SessionEpochsIncrease
  ImplementsLedger
CHECK_DEADLOCK FALSE
