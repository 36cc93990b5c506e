----------------------------- MODULE Community ------------------------------
(***************************************************************************)
(* The parts around the channels, side by side: the supervisor's processes,*)
(* the chests, the roster's greetings, the collector, the scheduled events,*)
(* the peers' inboxes and the agent's sessions.  In the code they share no *)
(* state, only the processes that run them, whose deaths each of them has  *)
(* as a step of its own: a run of the whole is a run of one of its parts,  *)
(* the others where they start.                                            *)
(***************************************************************************)
EXTENDS Naturals, Sequences

CONSTANTS
  Nobody,
  Supervisors, Slots, MaxBuilds, MaxFaults,                             \* Supervisor
  Members, Newcomers, Chest, ChestCommands, Amounts, StartLp, Gift, MaxChestFailures,
                                                                        \* TreasureChest
  People, Founders, Rounds, VisitorStep, MaxVisitorFailures,            \* Visitors
  Mentions, LastMessage, PageSize, StandDown, MaxCollectorFailures,     \* Collector
  PlanDayLength, WindowStart, WindowEnd, Grace, EveryDays, WeekDays, LastDay, Planners,
  Rolls, MaxSlips,                                                      \* EventPlanner
  Souls, Handlers, MaxDepth, Budget, PerHour, MaxKicks, MaxPeerDeaths,  \* PeerBus
  KimiSessions, MaxRetries, MaxTroubles                                 \* KimiSession

VARIABLES
  part,
  stage, pidFile, child, reloadQueued, debounce, respawns, proc, built, asked, faults,
  owner, opened, balance, command, gifted, hurried, lost, chestFailures,
  group, leavers, visitorsKnown, present, inactive, pass, firstDone, ledger, underWay, announced,
  doubled, unsent, queue, digest, newcomers, overlooked, welcomed, visitorMishaps, repeats,
  visitorFailures,
  chat, head, running, oldTo, started, flag, loop, streak, saved, cursor, upTo, captured,
  passed, answered, dropped, thrown, unsaved, twins, collectorFailures,
  cadence, clock, planning, begun, planner, schedule, timer, roll, sends, flawed, planned,
  slipped,
  inbox, changed, waking, rewriting, readCues, handler, replies, overlapped, up, slept, kicks,
  peerDeaths,
  dir, lines, alive, turn, working, janitor, troubles

supervisor == <<stage, pidFile, child, reloadQueued, debounce, respawns, proc, built, asked,
                faults>>
chests == <<owner, opened, balance, command, gifted, hurried, lost, chestFailures>>
visitors == <<group, leavers, visitorsKnown, present, inactive, pass, firstDone, ledger,
              underWay, announced, doubled, unsent, queue, digest, newcomers, overlooked,
              welcomed, visitorMishaps, repeats, visitorFailures>>
collector == <<chat, head, running, oldTo, started, flag, loop, streak, saved, cursor, upTo,
               captured, passed, answered, dropped, thrown, unsaved, twins, collectorFailures>>
events == <<cadence, clock, planning, begun, planner, schedule, timer, roll, sends, flawed,
            planned, slipped>>
peers == <<inbox, changed, waking, rewriting, readCues, handler, replies, overlapped, up,
           slept, kicks, peerDeaths>>
kimi == <<dir, lines, alive, turn, working, janitor, troubles>>

Z == INSTANCE Supervisor
C == INSTANCE TreasureChest WITH
       Sessions <- ChestCommands, Start <- StartLp, MaxFailures <- MaxChestFailures,
       failures <- chestFailures
V == INSTANCE Visitors WITH
       Step <- VisitorStep, MaxFailures <- MaxVisitorFailures,
       known <- visitorsKnown, mishaps <- visitorMishaps, failures <- visitorFailures
L == INSTANCE Collector WITH
       Last <- LastMessage, MaxFailures <- MaxCollectorFailures, failures <- collectorFailures
E == INSTANCE EventPlanner WITH
       DayLength <- PlanDayLength, Horizon <- LastDay, MaxFailures <- MaxSlips,
       now <- clock, alive <- planning, state <- schedule, slips <- slipped
P == INSTANCE PeerBus WITH
       MaxFailures <- MaxPeerDeaths, debounce <- waking, deaths <- peerDeaths
K == INSTANCE KimiSession WITH Sessions <- KimiSessions, MaxFailures <- MaxTroubles

ASSUME Processes == Z!ProcessesAssumption
ASSUME Chests == C!ChestsAssumption
ASSUME Visits == V!VisitorsAssumption
ASSUME Pages == L!CollectorAssumption
ASSUME PlanDays == E!DayAssumption
ASSUME PeerCaps == P!CapsAssumption
ASSUME KimiRuns == K!KimiAssumption

CommunityParts == {"supervisor", "chests", "visitors", "collector", "events", "peers", "kimi"}

\* One cadence is enough while another part runs.
CommunityInit ==
  /\ part \in CommunityParts
  /\ Z!Init /\ C!Init /\ V!Init /\ L!Init /\ E!Init /\ P!Init /\ K!Init
  /\ part # "events" => cadence = "days"

CommunityNext ==
  /\ UNCHANGED part
  /\ \/ part = "supervisor" /\ Z!Next
        /\ UNCHANGED <<chests, visitors, collector, events, peers, kimi>>
     \/ part = "chests" /\ C!Next
        /\ UNCHANGED <<supervisor, visitors, collector, events, peers, kimi>>
     \/ part = "visitors" /\ V!Next
        /\ UNCHANGED <<supervisor, chests, collector, events, peers, kimi>>
     \/ part = "collector" /\ L!Next
        /\ UNCHANGED <<supervisor, chests, visitors, events, peers, kimi>>
     \/ part = "events" /\ E!Next
        /\ UNCHANGED <<supervisor, chests, visitors, collector, peers, kimi>>
     \/ part = "peers" /\ P!Next
        /\ UNCHANGED <<supervisor, chests, visitors, collector, events, kimi>>
     \/ part = "kimi" /\ K!Next
        /\ UNCHANGED <<supervisor, chests, visitors, collector, events, peers>>

communityVars == <<part, supervisor, chests, visitors, collector, events, peers, kimi>>

CommunitySpec == CommunityInit /\ [][CommunityNext]_communityVars

-----------------------------------------------------------------------------
\* The types of every part (the state each process keeps).
CommunityTypeOK ==
  /\ part \in CommunityParts
  /\ Z!TypeOK /\ C!TypeOK /\ V!TypeOK /\ L!TypeOK /\ E!TypeOK /\ P!TypeOK /\ K!TypeOK

\* runSupervisor: no supervisor has two workers at once, and none it does not know of.
OneWorkerAtATime == Z!OneWorkerAtATime
\* reload(): what was asked for runs in the end, or is on its way.
ReloadBringsTheNewBuild == Z!ReloadBringsTheNewBuild
\* treasure-chest.ts: LP moves between accounts and is not made or lost.
ChestsConserveLp == C!ChestsConserveLp
\* feishu-user.ts: what the cursor has passed was dealt with, and a mention is
\* answered once.
NothingIsMissedNorAnsweredTwice == L!NothingSlipsBehindTheCursor /\ L!AnsweredOnce
\* syncMembers, the welcome digest, visitor-milestones.ts: every newcomer is
\* welcomed and a visitor's milestone is announced once.
EveryoneIsNoticed == V!EveryoneIsWelcomed /\ V!MilestoneAnnouncedOnce
\* planAndArmEvents: one post per planned day.
FiresOncePerPlan == E!FiresOncePerPlan
\* peer-bus.ts: no unread cue is left with nothing to wake its watcher, and the
\* hourly cap is exceeded by overlapping replies only.
CuesAreSeenWithinTheCap == P!NoCueSleeps /\ P!CapIsExceededByOverlapOnly
\* runWithHealAsync: a poisoned session costs no later answer.
PoisonIsNotInherited == K!PoisonIsNotInherited

=============================================================================
