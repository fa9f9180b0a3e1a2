CONSTANTS
  r1 = r1
  r2 = r2
  w1 = w1
  w2 = w2
  NULL = NULL
  Readers <- TwoReaders
  Writers <- TwoWriters
  MaxValue = 3
  Increment <- TwoIncrements
  MaxSpurious = 1
SPECIFICATION FairSpec
INVARIANTS CountersExact NoLostWakeup NoLostUpdate BoundedOvershoot
PROPERTIES ImplementsRWLock Termination
