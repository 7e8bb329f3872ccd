SPECIFICATION FairSpec
CONSTANTS
  Windows = {0, 1}
  MaxHistory = 1
  Batch = 2
  Ahead = 1
  MaxVersion = 3
  MaxSecond = 2
INVARIANTS
  TypeOK
  ChartIsClean
  NoOldArrays
  NoHole
  LiveIsCurrent
PROPERTY
  TablesCatchUp
