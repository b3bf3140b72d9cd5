CONSTANTS
  w1 = w1
  w2 = w2
  Writers = {w1, w2}
  MaxPending = 1
  MaxSize = 2
  MaxRecords = 3
  MaxFaults = 1
SPECIFICATION FairSpec
INVARIANT GroupTypeOK
INVARIANT AckedOnDisk
INVARIANT EveryWaiterQueued
INVARIANT OnlyLateStranded
PROPERTY WaitersReturn
PROPERTY CloseEnds
