SPECIFICATION Spec
CONSTANTS
  m1 = m1
  m2 = m2
  w1 = w1
  w2 = w2
  r1 = r1
  s1 = s1
  s2 = s2
  NoNode = NoNode
  Absent = Absent
  R = 2
  Mounts = {m1, m2}
  Fds = {w1, w2, r1}
  Writers = {w1, w2}
  MountOf <- TwoMounts
  Nodes = {s1, s2}
  PickNodes <- Picked
  NumBlocks = 2
  BlockSize = 2
  MetaBlockSize = 2
  Ranges <- SingleCells
  Sizes = {}
  MaxWrites = 2
  MaxOpens = 3
  MaxDrops = 0
  Env = {}
INVARIANTS CloseToOpen FreshOpen OkMeansPublished PublishSucceeds
CHECK_DEADLOCK FALSE
