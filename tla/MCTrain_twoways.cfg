CONSTANTS
  t1 = t1
  t2 = t2
  t3 = t3
  Trains <- ThreeTrains
  Direction <- BothWays
SPECIFICATION Spec
SYMMETRY TrainSymmetry
CHECK_DEADLOCK FALSE
INVARIANT OneTrain
