CONSTANTS
  Calls = {c1, c2, c3}
  FailThreshold = 2
  ProbeInterval = 2
SPECIFICATION LpFairSpec
PROPERTIES
  OneProbePerWindow
  OutageEnds
