SPECIFICATION FairSpec
CONSTANTS
  p1 = p1
  p2 = p2
  p3 = p3
  c1 = c1
  c2 = c2
  NoContainer = NoContainer
  NoProcess = NoProcess
  Pids = {p1, p2}
  Containers = {c1, c2}
  FirstOwner <- MCFirstOwner
  Mortal = {}
  Successors = {}
  OnGpu = {}
  Top = 2
  Hanging = {c1}
  Cap = 2
PROPERTY
  HangCostsItsRows
