SPECIFICATION Spec
INVARIANT
  DrainsToTheNewest
