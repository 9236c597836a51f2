SPECIFICATION Spec
CONSTANTS
  m1 = m1
  m2 = m2
  w1 = w1
  w2 = w2
  r1 = r1
  s1 = s1
  s2 = s2
  NoNode = NoNode
  Absent = Absent
  R = 2
  Mounts = {m1, m2}
  Fds = {w1, w2}
  Writers = {w1, w2}
  MountOf <- OneEach
  Nodes = {s1, s2}
  PickNodes <- Picked
  NumBlocks = 1
  BlockSize = 1
  MetaBlockSize = 1
  Ranges <- OneCell
  Sizes = {}
  MaxWrites = 2
  MaxOpens = 3
  MaxDrops = 0
  Env = {"restart"}
INVARIANT SurvivingCopyRead
CHECK_DEADLOCK FALSE
