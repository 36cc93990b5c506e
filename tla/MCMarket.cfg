CONSTANTS
  member = member
  yes = yes
  no = no
  t1 = t1
  t2 = t2
  Tickets = {t1, t2}
  Bettor <- MCBettor
  Choice <- MCChoice
  Lp <- MCLp
  Options = {yes, no}
  MaxBets = {15, 30}
  Lanes = 2
  MaxEdits = 1
  scheduler = scheduler
  Settlers = {scheduler, manual}
  Scheduler = scheduler
  Cancels = {c1}
  NoTicket = NoTicket
  LostAnswers = TRUE
  MaxStops = 1
SPECIFICATION FairSpec
INVARIANTS
  PaidOnce
  PaidByTheResult
  SuccessMeansPaid
  RefundedIsOutOfPlay
  
PROPERTY ExpiredSurveyCloses
