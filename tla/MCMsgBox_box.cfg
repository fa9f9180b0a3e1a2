CONSTANTS
  s1 = s1
  s2 = s2
  r1 = r1
  r2 = r2
  on = on
  off = off
  NULL = NULL
  Sender <- TwoSenders
  Receiver <- TwoReceivers
  Byte <- TwoBytes
  Value <- BothValues
  Message <- WholeMessages
  MaxSpurious = 1
SPECIFICATION FairSpec
INVARIANT NoLostWakeup
PROPERTY ImplementsMessageBox
PROPERTY MessageLeavesTheBox
