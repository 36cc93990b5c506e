CONSTANTS
  alias = alias
  member = member
  elder = elder
  chest = chest
  NoTx = NoTx
  Ids <- MCIds
  Chests <- MCChests
  Sessions = {s1, s2}
  Badges <- MCBadges
  FirstContact = "first_contact"
  AccountOps = {"contact"}
  Resets = {}
  Links <- MCLinks
  Rewards <- MCRewards
  Costs <- MCCosts
  FirstContactPt = 1200
  DailyCheckinPt = 30
  Floor = 100
  Target = 1200
  MaxDay = 1
  MaxOps = 3
SPECIFICATION Spec
SYMMETRY MCSymmetry
INVARIANT FirstContactGiftOnce
CHECK_DEADLOCK FALSE
