SPECIFICATION Spec
CONSTANTS
  Window = 7
  MaxTicks = 12
INVARIANT
  DelayIsTheFirstLines
