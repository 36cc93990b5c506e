CONSTANTS
  Nobody = Nobody
  Supervisors = {s1, s2}
  Slots = {1, 2, 3}
  MaxBuilds = 2
  MaxFaults = 2
  Members = {a, b}
  Newcomers = {b}
  Chest = chest
  ChestCommands = {c1, c2}
  Amounts = {1, 3}
  StartLp = 2
  Gift = 2
  MaxChestFailures = 2
  People = {1, 2}
  Founders = {1}
  Rounds = {1, 2}
  VisitorStep = 2
  MaxVisitorFailures = 1
  Mentions = {2, 3}
  LastMessage = 4
  PageSize = 2
  StandDown = 2
  MaxCollectorFailures = 2
  PlanDayLength = 4
  WindowStart = 1
  WindowEnd = 2
  Grace = 1
  EveryDays = 1
  WeekDays = {0, 2}
  LastDay = 2
  Planners = {1, 2}
  Rolls = {1, 2}
  MaxSlips = 1
  Souls = {1, 2}
  Handlers = {1, 2}
  MaxDepth = 3
  Budget = 2
  PerHour = 1
  MaxKicks = 2
  MaxPeerDeaths = 1
  KimiSessions = {1, 2, 3}
  MaxRetries = 1
  MaxTroubles = 2
SPECIFICATION CommunitySpec
INVARIANTS
  OneWorkerAtATime
  ReloadBringsTheNewBuild
  ChestsConserveLp
  NothingIsMissedNorAnsweredTwice
  EveryoneIsNoticed
  FiresOncePerPlan
  CuesAreSeenWithinTheCap
  PoisonIsNotInherited
CHECK_DEADLOCK FALSE
