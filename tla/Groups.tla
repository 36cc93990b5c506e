------------------------------- MODULE Groups -------------------------------
(***************************************************************************)
(* What the worker does in and about the groups and for its own records,   *)
(* side by side: likes, signups, rewarded introductions, meetups, new      *)
(* proposals and their settlement, heartbeats, the log's mirror, reminders *)
(* and the database's migrations.                                          *)
(* As in Community the parts share no state, and a run of the whole is a   *)
(* run of one of them.                                                     *)
(***************************************************************************)
EXTENDS Naturals, Sequences

CONSTANTS
  Likers, PerMember, Threshold, Weeks, LikeSweeps, MaxLikeFailures,     \* Reactions
  SignupPeople, SignupLeavers, Thresholds, Occurrences, SignupSweeps, Seconds,
  MaxSignupFailures,                                                    \* Signups
  LogTimers, MaxBuffer, KeepHead, KeepTail, MaxShift, LogLines, MaxSinkFailures,
                                                                        \* LogSink
  Runs, Chats, Limit, DayLength, SilentFrom, SilentTo, Cadence, Window, MaxChats, Horizon,
  MaxDeaths,                                                            \* Heartbeat
  MeetupJobs, MeetupCommands, MeetupClis, MaxMeetups, Titles, MaxMeetupFailures,
                                                                        \* Meetups
  ProposalJobs, ProposalClis, MaxProposals, MaxMishaps,                 \* Proposals
  optionX, optionY, optionZ, MaxRows, Stakes,                           \* MCPayout
  Openers, OldVersions, MaxStops,                                       \* Migrations
  Intros, IntroCommands, MaxIntroFailures,                              \* SelfIntro
  Watchers, Logins, MaxLapses                                           \* TokenWatch

VARIABLES
  work,
  week, given, likes, boxed, diverting, seeded, likeSweep, recorded, firing, dispatch,
  likeAnnounced, rewarded, unnoticed, likeFailures,
  signed, upcoming, round, second, signupSweep, already, sinceLow, signupMarred,
  signupFailures,
  emitted, buffer, flight, backoff, cooling, shown, seen, sinkUp, severed, sinkFailures,
  now, due, counter, run, fanout, sent, calls, lives, deaths,
  created, row, event, page, session, hurt, smudged, meetupMishaps,
  nextNum, rows, creator, holder, attempts, posted, known, refused, spoilt, mishaps,
  survey, bets, paid,
  objects, columns, schemaRows, opener, torn, stops,
  introPaid, introCommand, told, crossed, tries, slips,
  login, left, marked, watcher, closest, relapsed, marred, lapses

reactions == <<week, given, likes, boxed, diverting, seeded, likeSweep, recorded, firing,
               dispatch, likeAnnounced, rewarded, unnoticed, likeFailures>>
signups == <<signed, upcoming, round, second, signupSweep, already, sinceLow, signupMarred,
             signupFailures>>
sink == <<emitted, buffer, flight, backoff, cooling, shown, seen, sinkUp, severed,
          sinkFailures>>
heart == <<now, due, counter, run, fanout, sent, calls, lives, deaths>>
meetups == <<created, row, event, page, session, hurt, smudged, meetupMishaps>>
proposals == <<nextNum, rows, creator, holder, attempts, posted, known, refused, spoilt,
               mishaps>>
payouts == <<survey, bets, paid>>
migrations == <<objects, columns, schemaRows, opener, torn, stops>>
intros == <<introPaid, introCommand, told, crossed, tries, slips>>
tokens == <<login, left, marked, watcher, closest, relapsed, marred, lapses>>

J == INSTANCE Reactions WITH
       Members <- Likers, Sweeps <- LikeSweeps, MaxFailures <- MaxLikeFailures,
       rows <- likes, sweep <- likeSweep, announced <- likeAnnounced, failures <- likeFailures
U == INSTANCE Signups WITH
       People <- SignupPeople, Leavers <- SignupLeavers, Sweeps <- SignupSweeps,
       MaxFailures <- MaxSignupFailures, clock <- second,
       sweep <- signupSweep, marred <- signupMarred, failures <- signupFailures
O == INSTANCE LogSink WITH
       Timers <- LogTimers, Lines <- LogLines, MaxFailures <- MaxSinkFailures,
       streak <- backoff, up <- sinkUp, failures <- sinkFailures
H == INSTANCE Heartbeat
M == INSTANCE Meetups WITH
       Jobs <- MeetupJobs, Commands <- MeetupCommands, Clis <- MeetupClis,
       MaxFailures <- MaxMeetupFailures, mishaps <- meetupMishaps
N == INSTANCE Proposals WITH
       Jobs <- ProposalJobs, Clis <- ProposalClis, MaxFailures <- MaxMishaps, hurt <- spoilt
W == INSTANCE MCPayout WITH x <- optionX, y <- optionY, z <- optionZ
G == INSTANCE Migrations WITH
       Processes <- Openers, From <- OldVersions, MaxFailures <- MaxStops,
       recorded <- schemaRows, proc <- opener, failures <- stops
I == INSTANCE SelfIntro WITH
       Commands <- IntroCommands, MaxFailures <- MaxIntroFailures,
       paid <- introPaid, command <- introCommand, failures <- slips
R == INSTANCE TokenWatch WITH MaxFailures <- MaxLapses, failures <- lapses

ASSUME Heart == H!HeartAssumption
ASSUME Tokens == R!TokensAssumption
ASSUME Maniacs == J!ReactionsAssumption
ASSUME Courses == U!SignupsAssumption
ASSUME Meetings == M!MeetupsAssumption
ASSUME Mirror == O!SinkAssumption
ASSUME Settlements == W!PayoutAssumption
ASSUME OldBuilds == G!MigrationsAssumption

Works == {"reactions", "signups", "sink", "heart", "meetups", "proposals", "payouts",
          "migrations", "intros", "tokens"}

\* One settlement and one database are enough while another part runs.
GroupsInit ==
  /\ work \in Works
  /\ J!Init /\ U!Init /\ O!Init /\ H!Init /\ M!Init /\ N!Init
  /\ G!Init /\ I!Init /\ R!Init
  /\ \/ work = "payouts" /\ W!Init
     \/ /\ work # "payouts"
        /\ survey = [type |-> "discrete", noBonusWhenNoLoser |-> FALSE, open |-> TRUE]
        /\ bets = [b \in {1} |-> [option |-> optionX, lp |-> 10]]
        /\ paid = W!Unpaid
  /\ work # "signups" => signed = {}
  /\ work # "migrations" => schemaRows = {}

groupWork == <<reactions, signups, sink, heart, meetups, proposals, payouts>>
recordWork == <<migrations, intros, tokens>>

GroupStep ==
  \/ work = "reactions" /\ J!Next
     /\ UNCHANGED <<signups, sink, heart, meetups, proposals, payouts>>
  \/ work = "signups" /\ U!Next
     /\ UNCHANGED <<reactions, sink, heart, meetups, proposals, payouts>>
  \/ work = "sink" /\ O!Next
     /\ UNCHANGED <<reactions, signups, heart, meetups, proposals, payouts>>
  \/ work = "heart" /\ H!Next
     /\ UNCHANGED <<reactions, signups, sink, meetups, proposals, payouts>>
  \/ work = "meetups" /\ M!Next
     /\ UNCHANGED <<reactions, signups, sink, heart, proposals, payouts>>
  \/ work = "proposals" /\ N!Next
     /\ UNCHANGED <<reactions, signups, sink, heart, meetups, payouts>>
  \/ work = "payouts" /\ W!Settle
     /\ UNCHANGED <<reactions, signups, sink, heart, meetups, proposals>>

RecordStep ==
  \/ work = "migrations" /\ G!Next /\ UNCHANGED <<intros, tokens>>
  \/ work = "intros" /\ I!Next /\ UNCHANGED <<migrations, tokens>>
  \/ work = "tokens" /\ R!Next /\ UNCHANGED <<migrations, intros>>

GroupsNext ==
  /\ UNCHANGED work
  /\ (GroupStep /\ UNCHANGED recordWork) \/ (RecordStep /\ UNCHANGED groupWork)

groupsVars == <<work, groupWork, recordWork>>

GroupsSpec == GroupsInit /\ [][GroupsNext]_groupsVars

-----------------------------------------------------------------------------
\* The types of every part (the state each component keeps).
GroupsTypeOK ==
  /\ work \in Works
  /\ J!TypeOK /\ U!TypeOK /\ O!TypeOK /\ H!TypeOK /\ M!TypeOK /\ N!TypeOK
  /\ W!TypeOK /\ G!TypeOK /\ I!TypeOK /\ R!TypeOK

\* syncChatReactions: a like-maniac is announced and rewarded once a week.
LikeManiacOncePerWeek == J!LikeManiacOncePerWeek
\* syncCalendarEventRsvp: one reminder for each crossing of a threshold.
ReminderFiresOncePerCrossing == U!ReminderFiresOncePerCrossing
\* telegram.ts: the chat shows the whole log, in order, or a note of what is
\* left out.
LogIsMirrored == O!LinesAreAccountedFor /\ O!ChatReadsInOrder
\* heartbeat.ts, outbound-guard.ts: the day's limit and the fan-out guard bound
\* what a soul does unasked.
AutonomyIsBounded == H!HeartbeatQuota /\ H!BroadcastIsBounded
\* meetups.ts, meetup-wiki.ts: rows, calendar and wiki page say the same.
MeetupsAgree == M!CalendarMatchesTheRows /\ M!PageMirrorsTheMeetups
\* tc.ts, predict.ts: numbers without gaps, posts known to their rows.
NumbersAndPostsAgree == N!RefusedByOverlapOnly /\ N!PostsAreKnown
\* tc-settlement.ts: payouts and dust make up the pool, the nearest to the exact
\* average win, and a winning discrete bet returns its stake.
SettlementPaysFairly ==
  work = "payouts" =>
    W!PoolIsDistributed /\ W!NearestToTheExactAverage /\ W!WinnersAreNotWorseOff
\* db.ts, runMigrations: a handle comes with the whole schema, and processes
\* that migrate side by side do not jam the database.
SchemaComesWhole ==
  work = "migrations" =>
    G!HandleMeansComplete /\ G!JamsByInterruptionOnly /\ G!NoTableIsMissed
\* self-intro.ts, token-watch.ts: an introduction is paid once, a passed mark is
\* told of, and reminders get more urgent.
RewardsAndRemindersAreKept == I!IntroPaidOnce /\ R!RemindersEscalate

=============================================================================
