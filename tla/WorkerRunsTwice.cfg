CONSTANTS
  a1 = a1
  Attempts = {a1}
  NoAttempt = NoAttempt
  NoResult = NoResult
  Capacity = 1
  MaxEvents = 0
  MaxEpoch = 1
  MaxGens = 2
  Faults = {"reconnect"}
  MaxFaults = 2
SPECIFICATION Spec
INVARIANTS
  HandlerRunsOnce
CHECK_DEADLOCK FALSE
