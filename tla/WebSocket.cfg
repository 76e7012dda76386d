CONSTANTS
  Callers = {c1}
  Dialer = dial
  Attempts = {a1}
  ResumeCount = 2
  WriteQueue = 1
  PushQueue = 1
  LateReplyLimit = 1
  Sessions <- MCSessions
  MaxIds = 4
  MaxInbound = 1
SPECIFICATION FairSpec
INVARIANTS
  OfferCanBeAnswered
PROPERTIES
  
  CloseCompletes
CHECK_DEADLOCK FALSE
