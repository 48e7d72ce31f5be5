SPECIFICATION FairSpec
CONSTANTS
  c1 = c1
  c2 = c2
  Clients = {c1, c2}
  Modes = {"Batched", "Immediate"}
  Delay = 1
  EpochLimit = 2
  MutationBound = 3
  AgeBound = 1
  CallbacksMayPanic = FALSE
PROPERTIES CallsReturn RecordedIsSettled
CHECK_DEADLOCK FALSE
