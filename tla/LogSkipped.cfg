SPECIFICATION Spec
CONSTANTS
  Cursors = {c1}
  Units = 2
  Chunk = 3
  MaxFiles = 3
  MaxVersion = 2
INVARIANTS
  NothingSkipped
CHECK_DEADLOCK FALSE
