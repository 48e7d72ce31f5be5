SPECIFICATION FairSpec
CONSTANTS
  w1 = w1
  w2 = w2
  Writers = {w1, w2}
  FileBound = 3
  NameBound = 4
  CrashBound = 2
INVARIANTS AckedSurvives OwnTemporary
PROPERTIES ImplementsAtomicFile ReplaceReturns
CHECK_DEADLOCK FALSE
