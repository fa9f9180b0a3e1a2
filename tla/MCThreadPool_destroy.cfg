CONSTANTS
  w1 = w1
  w2 = w2
  n1 = n1
  n2 = n2
  n3 = n3
  Main = Main
  NULL = NULL
  Workers <- TwoWorkers
  Node <- ThreeNodes
  Script <- TestScript
  MallocMayFail = FALSE
  MaxSpurious = 0
  SizeMax = 8
SPECIFICATION Spec
INVARIANT NoUseOfDestroyedMutex
