CONSTANTS
  a1 = a1
  Attempts = {a1}
  NoAttempt = NoAttempt
  NoResult = NoResult
  Capacity = 1
  MaxEvents = 1
  MaxEpoch = 2
  MaxGens = 1
  Faults = {"reconnect", "reoffer", "cancel", "lost", "expire", "drain", "full"}
  MaxFaults = 1
SPECIFICATION Spec
CONSTRAINT OneLeaseRevocation
INVARIANTS
  NoRerunAfterRestart
  DeletedMeansTerminal
  ResultReachedCore
PROPERTIES
  UsesLedger
CHECK_DEADLOCK FALSE
