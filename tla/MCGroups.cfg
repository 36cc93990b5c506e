CONSTANTS
  Likers = {1}
  PerMember = 2
  Threshold = 2
  Weeks = 2
  LikeSweeps = {1, 2}
  MaxLikeFailures = 1
  SignupPeople = {1, 2}
  SignupLeavers = {1}
  Thresholds = {1, 2}
  Occurrences = 2
  SignupSweeps = {1, 2}
  Seconds = 2
  MaxSignupFailures = 1
  LogTimers = {1, 2}
  MaxBuffer = 4
  KeepHead = 1
  KeepTail = 1
  MaxShift = 1
  LogLines = 6
  MaxSinkFailures = 2
  Runs = {1, 2}
  Chats = {1, 2, 3}
  Limit = 1
  DayLength = 5
  SilentFrom = 4
  SilentTo = 1
  Cadence = 1
  Window = 1
  MaxChats = 1
  Horizon = 6
  MaxDeaths = 1
  MeetupJobs = {1}
  MeetupCommands = {2}
  MeetupClis = {3}
  MaxMeetups = 1
  Titles = {1}
  MaxMeetupFailures = 1
  ProposalJobs = {"job"}
  ProposalClis = {"cli"}
  MaxProposals = 4
  MaxMishaps = 1
  optionX = x
  optionY = y
  optionZ = z
  MaxRows = 4
  Stakes = {10, 20}
  Openers = {1, 2}
  OldVersions = {0, 10, 30}
  MaxStops = 1
  Intros = {1, 2}
  IntroCommands = {1, 2}
  MaxIntroFailures = 2
  Watchers = {1, 2}
  Logins = {1, 2}
  MaxLapses = 1
  PinMessages = {1, 2}
  PinCap = 1
  PinSweeps = {1, 2}
  MaxPins = 2
  PinSeconds = 3
  MaxPinFailures = 1
  MemoryUsers = {1}
  MemoryChats = {1}
  Summaries = {1}
  Aggregators = {1}
  Operators = {2}
  Sizes = {2}
  GroupLimit = 5
  UserLimit = 3
  MaxMemories = 2
  MaxSaid = 2
  MaxClock = 1
  Space <- Spaces
  Viewers = {1}
  MaxTargets = 4
  MaxViews = 2
  MaxGaps = 1
SPECIFICATION MCSpec
INVARIANTS
  LikeManiacOncePerWeek
  ReminderFiresOncePerCrossing
  LogIsMirrored
  AutonomyIsBounded
  MeetupsAgree
  NumbersAndPostsAgree
  SettlementPaysFairly
  SchemaComesWhole
  RewardsAndRemindersAreKept
  PinsStayWithinTheCap
  MemoryIsCurrent
  ViewsAreCaughtUpOnce
CHECK_DEADLOCK FALSE
