CONSTANTS
  w1 = w1
  w2 = w2
  c1 = c1
  c2 = c2
  Main = Main
  NULL = NULL
  Programs <- PoolServer
  Worker <- TwoWorkers
  Client <- TwoClients
  Requests = 2
  MaxFailures = 0
SPECIFICATION Spec
CHECK_DEADLOCK FALSE
INVARIANT DataIsIntact
