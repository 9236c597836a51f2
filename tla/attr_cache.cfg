SPECIFICATION FairSpec
CONSTANTS
  Mounts = {m1, m2}
  Ttl = 2
  MaxFlight = 1
  MaxVersion = 3
INVARIANT StaleBounded
PROPERTIES StatMonotone CachesSettle
