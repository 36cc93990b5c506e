CONSTANTS
  Calls = {c1, c2}
  FailThreshold = 2
  ProbeInterval = 1
SPECIFICATION LpFairSpec
PROPERTY HalfOpenResolves
