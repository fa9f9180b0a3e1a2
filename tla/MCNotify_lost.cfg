CONSTANTS
  t1 = t1
  t2 = t2
  Threads <- TwoThreads
  Wanted = 2
  Garbage = {0}
  MaxSpurious = 0
SPECIFICATION FairSpec
CHECK_DEADLOCK FALSE
PROPERTY AllNotifiedIsSuccess
