SPECIFICATION Spec
CONSTANTS
  m1 = m1
  m2 = m2
  w1 = w1
  w2 = w2
  r1 = r1
  s1 = s1
  s2 = s2
  NoNode = NoNode
  Absent = Absent
  R = 1
  Mounts = {m1, m2}
  Fds = {w1, w2}
  Writers = {w1, w2}
  MountOf <- OneEach
  Nodes = {s1, s2}
  PickNodes <- Picked
  NumBlocks = 1
  BlockSize = 2
  MetaBlockSize = 2
  Ranges <- OneBlockRanges
  Sizes = {}
  MaxWrites = 2
  MaxOpens = 2
  MaxDrops = 0
  Env = {"overlap", "republish", "read_fail", "write_fail", "restart", "crash", "membership"}
INVARIANTS TypeOK SizeFits Provenance CacheFresh PlacementAgreement
PROPERTY ImplementsCommits
CHECK_DEADLOCK FALSE
