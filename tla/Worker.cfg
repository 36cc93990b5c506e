CONSTANTS
  Msgs = {m1}
  Nothing = Nothing
  MaxRecovery = 1
  MaxSlips = 1
  Supervisors = {s1}
  Slots = {1, 2}
  Nobody = Nobody
  MaxBuilds = 1
  MaxFaults = 2
  MaxTrouble = 2
SPECIFICATION Spec
INVARIANTS
  WorkIsNotRepeated
  PayersAreMadeWhole
PROPERTY MentionsAreSeenTo
CHECK_DEADLOCK FALSE
