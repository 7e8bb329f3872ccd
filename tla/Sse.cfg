SPECIFICATION FairSpec
CONSTANTS
  Streams = {s1}
  Batch = 2
  MaxVersion = 4
INVARIANTS
  TypeOK
  EveryGuardCounts
PROPERTIES
  GuardsReleased
  PageMovesForward
  StreamCatchesUp
CHECK_DEADLOCK FALSE
