CONSTANTS
  Loops = {l1}
  Timed = {}
  Handlers = {h1}
  Main = main
  Sup = sup
  NoProc = noproc
  Pull = pull
  Conns = {c1, c2}
  NoClient = noclient
  Callers = {l1, h1, main}
  Movers = {l1, h1, main, sup}
  Clients = {pull, c1, c2}
  Mode = "auto"
  Policies <- ThenPullOnly
  HasRecords = TRUE
  MaxFaults = 1
SPECIFICATION Spec
CONSTRAINT FewDisturbances
INVARIANTS
  OneClientAtATime
  NoStaleTransition
  NoDuplicateRediscovery
PROPERTIES
  UsesGate
CHECK_DEADLOCK FALSE
