CONSTANTS
  Starts = {s1, s2}
  NoStart = NoStart
  Deployments <- Applications
  Oversized = {"r2"}
  WriteAttempts = 2
  MaxTokens = 3
  MaxFaults = 1
  MaxCrashes = 1
  MaxForeign = 2
SPECIFICATION Spec
INVARIANTS
  RedeemedIsRecoverable
  ReplayIsExact
PROPERTIES
  RemovesOnlyItsOwnFile
CONSTRAINT FewDisturbances
SYMMETRY StartSymmetry
CHECK_DEADLOCK FALSE
