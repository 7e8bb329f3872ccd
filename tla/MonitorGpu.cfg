SPECIFICATION Spec
CONSTANTS
  Viewers = {v1}
  Sources = {"system", "gpu"}
  Sections = {"base", "processes", "gpus"}
  Owner <- MCOwner
  Faulty = {"gpu"}
  Hanging = {"gpu"}
  Blocking = {"gpu"}
  Interval <- MCInterval
  GatherLimit <- MCGatherLimit
  MinStaleAfter = 4
  MinPublishInterval = 1
  Heartbeat = 2
  MaxTime = 8
  MaxVersion = 1
INVARIANT
  HangStaysInItsSection
CHECK_DEADLOCK FALSE
