CONSTANTS
  a1 = a1
  Attempts = {a1}
  NoAttempt = NoAttempt
  NoResult = NoResult
  Capacity = 1
  MaxEvents = 1
  MaxEpoch = 1
  MaxGens = 2
  Faults = {"reconnect", "cancel", "lost"}
  MaxFaults = 1
SPECIFICATION FairSpec
CONSTRAINT OneLeaseRevocation
INVARIANTS
  OneLiveHandler
PROPERTIES
  ResultDelivered
CHECK_DEADLOCK FALSE
