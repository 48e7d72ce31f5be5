SPECIFICATION Spec
CONSTANTS
  c1 = c1
  c2 = c2
  Clients = {c1, c2}
  Modes = {"Batched", "Immediate"}
  Delay = 2
  EpochLimit = 3
  MutationBound = 4
  AgeBound = 3
  CallbacksMayPanic = TRUE
SYMMETRY Symmetry
INVARIANTS TypeOK AckedIsDurable ShutdownIsDurable WrittenIsWhole NoLostWakeup DeadlineNotExtended
PROPERTIES FailStop
CHECK_DEADLOCK FALSE
