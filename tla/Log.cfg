SPECIFICATION FairSpec
CONSTANTS
  Cursors = {c1}
  Units = 2
  Chunk = 3
  MaxFiles = 3
  MaxVersion = 2
INVARIANTS
  TypeOK
  NoTornRecord
  OnlyTailsSkipped
  HistoryIsWhole
PROPERTIES
  LogIsFeed
  LogCatchesUp
  HistoryEnds
CHECK_DEADLOCK FALSE
