CONSTANTS
  Loops = {l1}
  Timed = {l1}
  Handlers = {}
  Main = main
  Sup = sup
  NoProc = noproc
  Pull = pull
  Conns = {c1, c2}
  NoClient = noclient
  Callers = {l1, main}
  Movers = {l1, main, sup}
  Clients = {pull, c1, c2}
  Mode = "ws"
  Policies <- ThenEither
  HasRecords = FALSE
  MaxFaults = 1
SPECIFICATION FairSpec
PROPERTIES
  
  
  CapacityRestored
