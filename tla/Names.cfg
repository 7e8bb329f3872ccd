SPECIFICATION FairSpec
CONSTANTS
  p1 = p1
  p2 = p2
  p3 = p3
  c1 = c1
  c2 = c2
  NoContainer = NoContainer
  NoProcess = NoProcess
  Pids = {p1, p2}
  Containers = {c1, c2}
  FirstOwner <- MCFirstOwner
  Mortal = {p2}
  Successors = {c1, NoContainer}
  OnGpu = {p2}
  Top = 1
  Hanging = {}
  Cap = 1
INVARIANT
  TypeOK
PROPERTIES
  FailedAreLeftAlone
  NoEntryOutlivesItsPass
  RowsComeRight
