SPECIFICATION Spec
CONSTANTS
  Viewers = {v1, v2}
  Sources = {"gpu", "lxc"}
  Sections = {"gpus", "lxc"}
  Owner <- MCOwner
  Faulty = {"lxc"}
  Hanging = {"lxc"}
  Blocking = {"gpu"}
  Interval <- MCInterval
  GatherLimit <- MCGatherLimit
  MinStaleAfter = 4
  MinPublishInterval = 1
  Heartbeat = 2
  MaxTime = 8
  MaxVersion = 1
INVARIANTS
  TypeOK
  NoLostWakeup
  NoSourceSleepsIn
  HungIsFlagged
  HangStaysInItsSection
  NoFalseAlarm
  PageIsPrompt
PROPERTIES
  PublishPaced
  RecoveryFollowsOutage
  RecoveryIsRealOrRejoined
  PageIsFeed
CHECK_DEADLOCK FALSE
SYMMETRY ViewerSymmetry
