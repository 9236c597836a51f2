SPECIFICATION FairSpec
CONSTANTS
  s1 = s1
  s2 = s2
  s3 = s3
  Names = {s1, s2, s3}
  Nodes = {s1, s2}
  Orders <- MCOrders
  Blocks <- MCBlocks
  Hash <- MCHash
  ReplicationFactor = 1
  AddrsOf <- MCAddrsOf
  NoAddr = NoAddr
  DeadAfter = 1
  Period = 1
  MaxAge = 4
  Steady = {s1}
  MaxFaults = 1
INVARIANTS NoFalseDown RingFresh
PROPERTIES MinimalDisruption SilentStoreLeaves RunningStoreReturns MountRecovers
