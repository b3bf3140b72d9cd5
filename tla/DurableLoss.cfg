CONSTANTS
  k1 = k1
  k2 = k2
  w1 = w1
  w2 = w2
  Keys = {k1, k2}
  Writers = {w1, w2}
  Flushers = {f1}
  Compactors = {c1}
  Calls <- OwnCalls
  MemLimit = 2
  NoRow = NoRow
  NoOp = NoOp
  MaxVersion = 3
  MaxSegID = 3
  Radix = 10
  MaxRestarts = 1
  MaxLog = 3
SPECIFICATION DurableSpec
INVARIANT SurvivesNow
