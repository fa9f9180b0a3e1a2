CONSTANTS
  w1 = w1
  w2 = w2
  n1 = n1
  n2 = n2
  n3 = n3
  Main = Main
  NULL = NULL
  Workers <- TwoWorkers
  Node <- ThreeNodes
  Script <- RelayScript
  MallocMayFail = TRUE
  MaxSpurious = 1
  SizeMax = 8
SPECIFICATION FairSpec
INVARIANTS NoUseAfterFree NoTaskStranded OneLeader NoSleeperAfterShutdown
PROPERTIES ImplementsTaskQueue EveryTaskRuns EveryWorkerLeaves
