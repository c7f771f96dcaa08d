SPECIFICATION Spec
CONSTANTS
  c1 = c1
  c2 = c2
  CPUs = {c1, c2}
  Slots = {1}
  Tags = {0, 1}
  Sets = {0}
  Offs = {0}
  Ways = 1
  MaxCounter = 1
  LatFresh = 2
  LatQueued = 1
  MaxOps <- Ops21
INVARIANT OneExclusive
