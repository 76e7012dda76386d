CONSTANTS
  c1 = c1
  c2 = c2
  Callers <- TwoCallers
  Operations <- AllOps
  MaxRequests = 3
  MaxAbandoned = 1
  MaxBadReplies = 1
SPECIFICATION Spec
INVARIANTS
  DialRetiresGeneration
  SuccessIsForRequest
SYMMETRY CallerSymmetry
CHECK_DEADLOCK FALSE
