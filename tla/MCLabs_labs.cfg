SPECIFICATION LabsSpec
CONSTANTS
  t1 = t1
  t2 = t2
  t3 = t3
  Threads <- ThreeThreads
  Wanted = 2
  Garbage <- AroundZero
  MaxSpurious = 1
  Labs = {"notify", "filter", "min over UDP", "min over TCP", "image", "rate monotonic", "priority ceiling"}
  Size = 4
  Heights = {3, 12, 14}
  Capacity = 1
  WorkerGarbage <- NoLineOrSecond
  N_PROCESSUS = 2
  Numbers = {1, 2, 3}
  INT_MAX = 9
  MaxSends = 2
  nb_clients = 3
  Draws = {1, 2}
  MaxRounds = 3
  ImageHeights = {4, 7, 9, 10, 14}
  Widths = {2, 3}
  Processes = {1, 2, 3, 4}
  PERIODIC_TASKS = 3
  MAX_TOTAL_PASSES = 4
INVARIANTS
  CountIsExact
  SuccessIsTrue
  InsideIsFiltered
  MinimumIsCurrent
  MinimumOfRound
  EveryLineOnce
PROPERTIES
  EveryoneEnds
  EveryTaskLeaves
  NoInversion
