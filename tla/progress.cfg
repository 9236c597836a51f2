SPECIFICATION FairSpec
CONSTANTS
  m1 = m1
  m2 = m2
  w1 = w1
  w2 = w2
  r1 = r1
  s1 = s1
  s2 = s2
  NoNode = NoNode
  Absent = Absent
  R = 1
  Mounts = {m1, m2}
  Fds = {w1}
  Writers = {w1}
  MountOf <- Alone
  Nodes = {s1, s2}
  PickNodes <- Picked
  NumBlocks = 2
  BlockSize = 2
  MetaBlockSize = 2
  Ranges <- Straddle
  Sizes = {0}
  MaxWrites = 2
  MaxOpens = 2
  MaxDrops = 1
  Env = {"republish", "read_fail", "write_fail", "restart", "truncate", "unlink"}
INVARIANT Provenance
PROPERTIES EveryRequestEnds ImplementsCommits
CHECK_DEADLOCK FALSE
