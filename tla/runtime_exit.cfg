SPECIFICATION FairSpec
CONSTANTS
  main = main
  w1 = w1
  w2 = w2
  l1 = l1
  l2 = l2
  server = server
  c1 = c1
  c2 = c2
  Null = Null
  Jobs = {server, c1, c2}
  Threads = {main, w1, l1}
  Workers = {w1}
  Loops = {l1}
  Main = main
  Server = server
  Msgs <- OneSends
  MayThrow = {server}
  MayRefuse = TRUE
  SigThreads = {main, l1}
INVARIANT TypeOK
INVARIANT OneResumption
INVARIANT RegistryExact
PROPERTY SyncWaitReturns
PROPERTY HandlerEnds
PROPERTY ShutdownClean
PROPERTY ServedToEnd
PROPERTY Accepted
CHECK_DEADLOCK FALSE
