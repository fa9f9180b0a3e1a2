CONSTANTS
  w1 = w1
  w2 = w2
  c1 = c1
  c2 = c2
  Main = Main
  NULL = NULL
  Programs <- SoundServers
  Worker <- TwoWorkers
  Client <- TwoClients
  Requests = 2
  MaxFailures = 2
SPECIFICATION FairSpec
CHECK_DEADLOCK FALSE
INVARIANTS DescriptorsOwned AnsweredOnce OneAcceptor
PROPERTY AllAnswered
