# Polis Game in TLA+

A verification project for `seedao-polis/polis-game`: a resident Feishu agent
with a shared LP (life point) economy on PostgreSQL, a supervisor and its worker
processes, community markets and scheduled events.  All line references are to
the repository's TypeScript under `src/src`.

## 1. Inventory

| Part | State it keeps | Operations | What makes it hard | What makes it correct |
|---|---|---|---|---|
| LP economy `core/store/gamification.ts`, `agent link` | profiles, pt_ledger, user_badges, checkins, identity_links (PostgreSQL, shared by every agent) | grantPt, spendPt, checkIn, awardBadge, ensureProfile / recordInteraction, two resets, link | read-committed transactions of several processes; a merge deletes accounts under open transactions | ledger backs the balance; no overdraft; one check-in pay a day; gift iff badge; one hop finds the account of an alias |
| Circuit breaker `core/circuit-breaker.ts` | state, failure count, openedAt, probe slot (per process and pool, in memory) | allowRequest, recordSuccess, recordFailure | outcomes arrive late, from calls of another era, or never | one probe at a time; leaves open by itself |
| Database access `core/db.ts` | two pools, transaction bound by AsyncLocalStorage | getDb, getLpDb, tx, lpTx | which outcome is reported to which breaker | every call is gated once |
| Outbox `core/pg-outbox.ts` | a SQLite file all processes append to | enqueueOutboxWrite, replayOutbox | crash between two databases, lost answers, overlapping replays | nothing accepted is lost; the backlog drains |
| Markets: BET `core/predict-*.ts`, TC `core/tc-*.ts` | proposals and bets (soul database) next to LP (shared database) | propose, bet, edit, cancel with refunds, settle with payouts | two databases, no common transaction; several processes; failure between any two steps | stakes are paid or refunded, once; payouts add up to the pool |
| Treasure chests `core/treasure-chest.ts` | chests, virtual LP accounts | create, deposit, withdraw | two transactions per transfer | LP is neither made nor destroyed unseen |
| Supervisor `core/supervisor.ts` | child process, reload flag, timers, pid file | spawn, crash, SIGHUP, shutdown, schedulers | signals, exits and timers in any order | one worker at a time; a reload ends in the new build |
| Bot channel `channels/feishu-bot.ts` | handled_messages, pending_replies, job queue | dedupe, charge, reply, refund, recover | crash at every await, events lost or redelivered | a mention is seen to, its work bounded, its charge made good |
| User channel `channels/feishu-user.ts` | cursors, roster, likes, pins, RSVP rounds, document views | chat loops, discovery, the three sweeps | overlapping sweeps, two loops of one chat, partial listings, writes that throw, crashes between post and record | nothing missed, nothing twice, but for what a failure names |
| Events `core/events.ts` | event_schedule_state, event_dispatches | plan, arm, roll, fire, dispatch | silent write failures, restarts in the window | one post per planned day |
| Welcome, self-intro, milestones, token watch | queues, ledgers of what was said | enqueue, digest, mark | check then act across awaits, two processes | everyone noticed, nobody paid twice |
| Peer bus, outbound guard, heartbeat | inbox files, fan-out window, daily counter | append, read, reply, block | files shared by processes, overlapping ticks | no cue sleeps; quotas hold |
| Agent and kimi sessions `core/agent.ts`, `core/kimi-session.ts` | session directories, index | turn, retry, quarantine, sweep | turns cut short; two processes repair | a poisoned session costs no later answer |
| Memory `core/store/memory.ts` | memory_items | upsert, purge, policy, prompt budget | look up then write, no unique key | the latest is kept and read |
| Meetups, proposals `core/store/meetups.ts`, `tc.ts`, `predict.ts` | rows, calendar, wiki page, counter, posts | create, change, cancel, number, post | two systems, several processes | they agree |
| Migrations `core/db.ts` | SQLite schema, schema_migrations | runMigrations | no transaction, processes side by side | a handle comes with the whole schema |
| Log mirror `core/telegram.ts` | buffer, back-off | flush, requeue, coalesce, exit | a batch in flight | the chat shows the whole log, in order |
| Reports, Feishu / LLM clients, Rust `tools/seedaodb*` | none or elsewhere | rendering, I/O | external services | see section 8 |

How they interact: the worker's channels receive messages and call the LP
economy, the markets and the memory; the supervisor runs the schedulers (floor
reset, market settlement, events, digests) in a process of its own; short-lived
MCP tool processes use the same stores.  They share PostgreSQL (the LP schema,
and for one soul its own schema), the outbox file, the pid file and the inbox
files; nothing else.  Each process has two breakers, one for each pool.

## 2. Plan

Modules in the order of what matters most; all of them are written.

1. `LpLedger` with `LpLedger_proofs`: everything else spends and grants here;
   `AccountBook` is what it promises.
2. `PgCircuitBreaker`, `LpCircuit`: who may reach the LP pool.
3. `SoulOutbox`: composes the breaker of every process with the outbox;
   `Circuit_proofs` is about all three.
4. `Payout`: the settlement arithmetic in tenths of an LP; `Market`: BET and TC over
   two databases; `Proposals`: where they come from.
5. `Supervisor`, `BotChannel` and their composition `Worker`; `TreasureChest`,
   `EventPlanner`.
6. `Collector`, `Visitors`, `Reactions`, `Pins`, `Signups`, `DocViews`: the user channel.
7. `PeerBus`, `Heartbeat`, `KimiSession`, `Memory`, `SelfIntro`, `TokenWatch`,
   `Meetups`, `LogSink`, `Migrations`.

8. Proofs, part by part: `Market_proofs`, `Worker_proofs`, `Community_proofs`,
   `UserChannel_proofs`, `Groups_proofs`, on the sums of `SumTheorems`.

Nothing of this plan is left; what was never part of it is in section 8.

## 3. Modules

**LpLedger** — one step per point at which another session can be seen or can make
a transaction wait: a read, a row lock, COMMIT.  `tx[s]` is the transaction of a
pooled connection; `pc` walks `ensure` (ensureProfileRaw's read), `resolve`
(upsertProfileRaw's own `cid()`), `upsert` (the row lock), `write` (the remaining
statements and COMMIT).  The resets are `sweep`, `agent link` is `purge`, `drop`,
`relink`.  Writes become visible at COMMIT, so they are applied there; `Abort` is
any ROLLBACK.  `Cid` may fall back to the raw id, as the code's catch does, also where
`agent link` looks up its target before its transaction, which nothing keeps apart from
another merge.  Chains of aliases do come of that: `crossed` keeps the targets of such
merges, and `OnlyCrossedLinksChain` says that no other account has a chain.
`booked`, `gifts` and `paid` are what queries over pt_ledger would return.
Amounts are tenths of an LP, the scale of NUMERIC(12,1).

**PgCircuitBreaker** — the class as operators on a record: `Allows` and
`AfterRequest` are allowRequest's value and effect, `AfterSuccess`,
`AfterFailure` the two reports.  `openedAt` and the clock are one countdown.

**LpCircuit** — callers of `lpTx` and `getLpDb` around `lpCircuit`.  `SilentEnd`
collects the ways a call ends without a report (raw BEGIN or COMMIT failing, SQL
errors, failures blamed on a blocked event loop, an executor never used).  `probe` is the
call that claimed the half-open slot; when it has ended and reported nothing the breaker
is `Forsaken`, which `OutageEnds` excepts by name and `lp_half_open` shows.

**SoulOutbox** — breakers of all processes, append-only writes, the outbox and
concurrent replays.  `Succeed` includes the supervisor's listener, which starts a
replay inside recordSuccess; `Sweep` is the five-minute timer.  A crash loses a
process's breaker and replays and may lose the answer to what is on the wire.
`ReplayFail` and `ReplayMarkFail` come while PostgreSQL is up too, as the catch around
a row's INSERT and its mark (`pg-outbox.ts:161`) takes any error; a row that keeps
failing is `Refused`, and `BacklogDrains` is about each of the others.

**Payout** — computeTcSettlement and distributePool as operators: `Winners`,
`EffectivePool`, `Distributions`.  Amounts are whole numbers of tenths; pools are
twentieths of those, so that 5% is exact.  A share of a whole number of tenths may
come out just below it in doubles and lose a tenth to Math.floor (2.7 * (1.5/2.7)
does), so `Distributions` is the set of what can come out.  A continuous option
carries its spelling, because the code groups winners by it.

**Market** — one proposal of either kind.  `Take`, `Insert`, `Rollback` are the
handler of a bet message, which works with the row of the proposal it has read (`See`);
`Edit` is `tc edit`, which moves max_bet_lp and end_time in between; `Pick`, `Read`, `Gate`, `Pay`, `Finish`, `PayFails` a
settlement (settlePredict and settleTc differ in who names the winners and in the
chest); `PickCancel` to `Close` a cancellation, the same in its three copies in the
code.  Each step is one query of one database.  A run that dies is one that takes
no further step; the scheduler's dies by `Stop` and comes back by `NextTick`.
`Lanes` is 2 because the bot handles live events one at a time and so does the
backfill that may run beside them.  `paid` and `returned` count grants; what a
grant does to a balance is LpLedger's.

**AccountBook** — the same operations as steps that are done or refused at once.
`LpLedger!Accounts` maps committed tables to it: accounts, balances, check-ins and
identities.  A level-up may be applied with deltas of an older balance, so the
book's `Level` only says who may be touched (people, not chests) and by what kind of
amount; grants, spends, check-ins and merges are exact.

**Supervisor** — `serve --sup` processes, the pid file, worker slots.  `Spawn`,
exits, `Respawn` after the back-off, `Reload` with its debounce and queue, SIGTERM
and the later SIGKILL, SIGHUP from `agent reload`, shutdown.  A worker may be
blocked (its event loop stuck) and a SIGTERM may reach one that is still starting.

**BotChannel** — two lanes (event stream, backfill) check and mark
handled_messages, write the recovery row and queue the job; the pump charges, flags,
answers, closes; `recover` lists the rows of the last life, refunds and requeues.
`beyond` are the mentions that no backfill finds, or finds no longer: replies in dormant
threads, messages that got older than its look-back (`Elapse`) and those that backfills
failed to get to (`Overlook`).
`Slip` is a best-effort write, grant or send that fails.  **Worker** puts the channel
into the supervisor's processes: its memory goes with the worker that serves.

**TreasureChest** — create (row, then seeded account) and transfers (spendPt, then
grantPt in a transaction of its own).  `hurried` and `lost` keep what failures and
crashes made of the total.

**Collector** — one chat: the two callers of startNew() (the start and the rescan),
each with the loop it may start, the page of new messages, capture, answer, the
cursor in memory and in its file; a chat that is barred, dissolved or joined again.
saveCursor() may throw or leave a torn file, and what handles a message may throw:
`unsaved` counts how often the file did not keep that a message was done, `thrown` has
the mentions whose handling threw, `twins` the second loops.

**Visitors** — roster rounds (`Fetch` reads a roster whole or in part), milestones with
an announcement nobody awaits (`Fire`, then `Announce` or `AnnounceFails` at any later
time), the group stood down and listed again (`MarkInactive`, `Reopen`), the welcome
queue and the supervisor's digest.  recordChatMember() also writes chat_members and has
no action: its one caller (`events.ts:227`) names people of rows that are there, and
there it changes a name.

**Reactions**, **Pins** — the two halves of syncChatReactions with the event it fires.
Pins have the second of the table's clock they were recorded in; which rows of one
second are the oldest is open, and people take pins down by hand.  **Signups** — the
RSVP sweep and its reminders, those of an occurrence's first round among them;
**DocViews** — the hourly pass over document access records.

**EventPlanner** — one scheduled event: planned, armed, caught up after a restart,
rolled, stamped, with writes that fail silently.  The clock is in parts of a day.

**PeerBus** — inbox files as sequences, the debounced watchers, read by rewriting,
handlers that ask the cap before they reply.  **Heartbeat** — the gates, the
counter's file, overlapping runs and the fan-out window.  **KimiSession** — session
directories that are whole or orphaned with or without an index line, the turn's
retries, the repair at start and the janitor.  **Memory** — memory_items with
look-up and write apart; a text is the number of messages it was made from, and
`Prompts` is what getFilteredMemories lets through for every order of rows written
within one second.  **SelfIntro**, **TokenWatch** — gate, effect and mark in
separate steps.  **Meetups** — rows, calendar and page; **Proposals** — counter, row,
post.  **LogSink** — buffer, flights of flushAsync, back-off, coalesce, exit.

**Migrations** — all 39 versions: what each creates, the columns it adds, what its
other statements need, what it drops or renames; every statement is a step, since
`db.exec` runs them in no transaction.  A database starts at the version of an older
build, under the names things had then.

**Community** and **Groups** put parts that share no state side by side: `part` and
`work` say which one moves, so a run explores their sum and not their product.  The
couplings that matter are inside the modules (a worker's death, the supervisor's
timers, the event that a sweep fires) and in `Worker`.  They have parameters for
everything their parts have, name what each part assumes of them (`Chests`, `Pages`,
`Mirror`, ...) and are what the theorems are about.  **Records** does the same for
`Pins`, `Memory` and `DocViews`, with `side` as its switch; **MCGroups** puts `Groups` and
`Records` into one run.

The proofs are in modules of their own: **LpLedger_proofs**, **Circuit_proofs**
(PgCircuitBreaker, LpCircuit and SoulOutbox), **Market_proofs**, **Worker_proofs**
(BotChannel in Worker), **Community_proofs** (Supervisor, TreasureChest, EventPlanner,
PeerBus, KimiSession), **UserChannel_proofs** (Collector, Visitors, Pins, Memory,
DocViews), **Groups_proofs** (SelfIntro, TokenWatch, Heartbeat, Proposals, Meetups, Signups, Reactions, LogSink,
Payout, Migrations).
**SumTheorems** is a small library about sums over finite sets (`SumFunctionOnSet`) that the ledger, the
chests and the bet caps need.

## 4. Runs

| Run | Question | Bounds, and why they are enough |
|---|---|---|
| `lp_ledger` | Do the books stay right under every interleaving? | 2 connections, 3 operations, 4 ids (three of one person, so merges chain; one chest), both resets, 2 days. A conflict needs two transactions; the third operation lets a merge follow or meet them. |
| `lp_first_contact` (violation) | Does a newcomer get one gift? | as above, contacts only |
| `lp_circuit` | One probe at a time; do outages end? | 3 callers: the probe, a late answer and a newcomer; threshold 2, cooldown of 2 ticks |
| `lp_half_open` (violation) | Is half-open always left? | 2 callers |
| `soul_outbox` | Is anything accepted lost; does the backlog drain? | worker and supervisor, one keyed and one unkeyed write, 2 overlapping replays, 2 crashes, lost answers; threshold 2 |
| `soul_lands_twice` (violation) | Is replay a no-op for what landed? | no crash, no lost answer |
| `payout_principal` (violation) | Is the principal returned when nobody lost? | 2 bets |
| `market` | Is anything paid twice, or against the result; does an expired survey close? | 2 bets of one person, 2 settlers (a survey's scheduler and an operator; two announcements of a prediction), 1 cancellation, caps that admit one, either or both, one edit of cap and end, one death of the scheduler, an LP database that comes and goes |
| `market_unpaid` (violation) | Is a failed payout made up for? | as above, nothing dies, no answer is lost |
| `worker` | Is every mention seen to, its work bounded, its charge made good? | 1 mention of either kind in 2 lanes, 1 supervisor, 2 worker slots (the old and the new), 1 build, 2 faults, 1 failed write, 2 troubles in all; 1 retry (2 in the code), so that giving up is reached |
| `community` | Supervisor and schedulers, collector, greetings, chests, peers, sessions | 2 supervisors, 3 slots, 2 builds, 2 faults; 2 people, a chest and 2 commands; 2 roster rounds and 2 people, a milestone of 2; 4 messages of which 2 mentions, pages of 2, 2 callers of startNew(); 2 days of 4 parts; 2 souls with 2 handlers; 3 sessions, 1 retry; 1 or 2 failures in each |
| `groups` | Likes, pins, signups, views, introductions, meetups, proposals, settlements, heartbeats, memories, reminders, the log's mirror, migrations | 2 sweeps, sessions or writers that overlap in each, caps and thresholds small enough to be crossed, 1 or 2 failures; pins of 3 seconds, until a sweep failed or overlapped another, from where nothing is claimed of them; a buffer of 4 lines, 6 of which come; up to 4 bets of 1 or 2 LP, the larger last, as their order does not matter; memories until writes have met in every scope, from where nothing is claimed of their texts; 5 documents of which 2 share a space, one is beyond the limit and the last within it is ours; databases of version 0, 10 and 30, 2 processes |

Deadlock is not checked for `LpLedger`, which stops when the bound on operations is
used up, `Payout`, which settles once, and the last three (`worker` to `groups`), whose
bounds on mentions, posts, days and failures run out.  Type invariants are in every module; the runs leave them out, as a
value out of its type breaks a property or an evaluation there, and
they are what the proofs begin with.

Larger instances that were checked once and are too slow for every day:
`Heartbeat` with a limit of 2, days of 6 and horizon 7 (3.5 million states),
`Meetups` with 2 meetups (626,803), `Signups` with 3 seconds (1.6 million),
`Pins` with 3 messages and a cap of 2 (397,470),
`DocViews` with 2 viewers (960,020) and with whatever documents are ours (123,132),
`Memory` with texts that fit the budget and texts that do not (838,090) and past the
place where writes have met in every scope (496,947).

The retries of the code are many; what matters is the first, the last and one
beyond, which a bound of 1 or 2 gives.  Failures are bounded because each
property says what a failure may cost (`marred`, `crossed`, `lost`, `cutShort` and the
like name what one touched), and two are enough for a failure of what makes
up for a failure.

What the market runs do not claim is as telling.  The model has behaviours in which
a stake is refunded twice (two cancellations, or one racing a settlement:
markBetRefunded's answer is not used), in which a bet recorded after a settlement's
or cancellation's read is neither paid nor refunded, and in which a stake is given
back although its bet was recorded.  The code states nothing that these refute, so
no run reports them; PROJECT.json lists them as hazards.  The same holds of a chat
that is joined again while its old loop is giving up (`feishu-user.ts:144`, `:1042`), of
a wiki document the user cannot administer, which hides those after it in its space
(`:652`), and of a memory longer than the prompt's budget, which is stored and never
read (`store/memory.ts:196`).  Migrations are said to be "idempotent" (`db.ts:1501`);
what holds is that nothing but an interruption between a version's ADD COLUMN and
its row jams them, which then is for good.

The violations are disagreements between a comment and the code: see "findings"
in PROJECT.json for the quoted lines.  Other disagreements are in the models and in the
comments of the properties, which except them by name:

- "fully completes, and only then does the cursor advance past it"
  (`feishu-user.ts:948`): the cursor in memory is moved first (`:953`).  A mention whose
  handling throws is passed over: `thrown` in `Collector`.
- A message is pinned "once, idempotent" (`feishu-user.ts:309`), "never re-pinned"
  (`db.ts:1160`), "exactly once" (`store/reactions.ts:180`): one the cap took down lost its
  row and is pinned again while it is of today.  With more popular messages
  of a day than the cap every sweep pins and unpins.  `PinsStayWithinTheCap` counts a pin
  more for each time the cap took it.  Of pins of one second "the oldest" (`feishu-user.ts:314`)
  may be the one just put up.
- "Thresholds already passed before tracking began never back-fire"
  (`feishu-user.ts:554`): an event without a round counts as 0 (`:560`), so that its first
  round announces what it has reached, and every occurrence of a series has a
  first round.  `already` in `Signups`.
- A milestone is announced "exactly once per hundred, ever" (`feishu-user.ts:218`): it is
  recorded first, and an announcement that fails or dies is not made up for:
  `unsent` in `Visitors`.
- A chat stood down "recovers at the next rescan or restart" (the log line of
  `feishu-user.ts:1044`): it stays in `started` (`:135`), so only a restart brings it back.
- A mention that "lands in a silent window" is recovered (`feishu-bot.ts:974`) when a
  backfill gets to it within 30 minutes; replies in dormant threads are not, as
  `:980` says itself: `Missed` in `BotChannel`.

## 5. Fairness

Safety runs assume none.  `LpCircuit!FairSpec`: time passes, callers keep coming
through `lpTx` (schedulers and chat commands do) and every call ends (connect and
statements have timeouts).  `SoulOutbox!FairSpec`: the sweep is a timer, a replay's
statements have timeouts, and every process goes on making ungated queries
(polling, schedules), which `tx()` and `getDb()` never gate.  Nothing is assumed of
PostgreSQL: liveness is conditional on it answering for good (`<>[]up`).
`Market!FairSpec`: the supervisor's scheduler ticks every minute and its queries
end, as long as the LP database answers (it skips its turn when it knows better).
Nothing is assumed of people, or of the CLI.
`Worker!Fairness`: timers fire, exits are seen, a worker that starts gets there or
fails, one whose event loop is blocked comes back (there is no watchdog), awaits of
the lanes, the pump and recover() end, and the event stream is reconnected every
RECYCLE_MS (20 minutes), so that a backfill comes to what it still finds.  It finds
nothing in `beyond`, and `MentionsAreSeenTo` claims nothing of what gets there unhandled: a
message gets too old at any time while no worker serves (`Elapse`) and, as 20 is less
than the look-back of 30 minutes, only after failed scans while one does (`Overlook`, a
counted failure).  Nothing is assumed of supervisors coming back: `Forsaken` names the states
in which nobody is left to answer.  `BacklogDrains` asks, as a condition and not as
fairness, that a row is not refused for ever.  The other modules are checked for safety.

## 6. What is proved

Every theorem holds for every value of the constants that the named assumptions allow.
The assumptions say what kind of thing a constant is (numbers, sets that do not
overlap, a "nobody" that is nobody) and, where the code's constants do, that a limit is
not zero; databases are of the versions 0 to 39.  Three say more: `SinkAssumption` wants the ends that LogSink keeps to be
shorter together than its buffer (`telegram.ts` keeps 50 at each end of 800), `LpLedger`'s
`IdsAssumption` wants no chest to be linked (only people run `agent link`), `Market`'s wants a
bet to be of at least one LP, as the parser does.  Where sums or counts are
taken, sets of members, tickets or chats are finite.

The bounds that keep TLC finite (`MaxOps`, `Horizon`, `MaxFailures`, ...) are constants too:
a theorem holds for each of them, and so for every finite behaviour of the system.

| Module | Theorem | Property | Argument |
|---|---|---|---|
| `LpLedger_proofs` | `LedgerIsSourceOfTruth` | LedgerBacksBalance | not inductive alone: `Disciplined` says what a transaction in each phase holds and that a lock's holder is in a phase that takes one; a merge adds that the row being relinked is locked or absent and its dependents unchanged since the purge |
| | `ChainsComeOfCrossings` | OnlyCrossedLinksChain | `LinkInv`: what a merge under way has locked and read says which aliases can still change below it; two that are under way at once, or one whose lookup failed, have put their targets into `crossed` |
| | `SpendsNeverOverdraw`, `GiftsAreBadged`, `CheckInsPayOnce` | SpendIsCovered, GiftComesWithBadge, CheckInPaidOnce | each from `Disciplined` with a conjunct of its own |
| | `CommitsAreOperations` | ImplementsAccountBook | the refinement: `BookInv` adds `Purposeful` (a transaction's amounts are those of its operation), then each COMMIT is one operation of the book and every other step a stutter |
| `Circuit_proofs` | `SlotFollowsWindow`, `ProbeIsAlone` | OneProbePerWindow | `Tight`: the slot is claimed exactly in half-open |
| | `NothingAcceptedIsLost` | AcceptedNeverLost | a marked row landed, so did one a replay is about to mark, and a diverted write is in the outbox |
| `Market_proofs` | `NobodyIsPaidTwice`, `PaymentsFollowTheResult`, `ReportedSuccessIsPaid` | PaidOnce, PaidByTheResult, SuccessMeansPaid | `SettleInv`: whoever pays has passed the gate, one settlement passes it, and what it has still to pay is not paid |
| | `RefundsAreOutOfPlay` | RefundedIsOutOfPlay | `RefundInv`: a cancellation marks before it grants |
| | `BetsKeepToTheCap` | OverCapByOtherLanes | `CapInv`: the last to be let pass kept to the cap it had read, and what it did not see is in the hands of fewer lanes; an edit changes the cap of nobody who has read it |
| `Worker_proofs` | `WorkIsBounded`, `ChargesAreAccounted` | WorkIsNotRepeated, PayersAreMadeWhole | `JobInv`, job by job: places in the queue plus runs keep to the recovery row's count; a charge without its flag has a fault behind it |
| | `WorkersAreSupervised` | | every step of the composition is one of the supervisor's or a stutter |
| `Community_proofs` | `OneWorkerPerSupervisor`, `ReloadsAreNotLost` | OneWorkerAtATime, ReloadBringsTheNewBuild | `SupInv`: whatever a supervisor that is up has spawned and not buried is its child |
| | `ChestsKeepTheirLp` | ChestsConserveLp | `ChestInv`: balances, what commands carry, gifts and what failures name add up to the start, by `SumUpdate` |
| | `PlansFireOnce` | FiresOncePerPlan | `PlanInv`: a timer or roll belongs to the day it was planned for, and that day is stamped before another is |
| | `CuesAreSeen` | CuesAreSeenWithinTheCap | `PeersInv`: an unread cue has a change event, a debounce or a reader behind it; replies over the cap were asked for while another was under way |
| | `PoisonCostsNoAnswer` | PoisonIsNotInherited | `TurnInv`; that a turn finds the newest session needs that finite sets of numbers have a largest member |
| `UserChannel_proofs` | `TheCursorIsTrue` | NothingIsMissedNorAnsweredTwice | `CollectorInv`: each loop has dealt with what lies behind its cursor, and so has the file with what lies behind it; answers are told one by one from what the loops may still answer, `unsaved` and `twins` |
| | `EveryoneIsGreetedOnce` | EveryoneIsNoticed | `VisitorsInv`: a newcomer not welcomed is listed, queued, in hand or named by a failure; a founder is new only to who reads rows that a roster in part left out; a recorded milestone is announced, under way or cut off |
| | `PinsKeepToTheCap` | PinsStayWithinTheCap | `PinsInv`: while nothing marred it one sweep moves, each of its steps is a known distance from a table that says what is pinned, and what it is about to take down is of no later second than what stays |
| | `PassesCatchUp` | ViewsAreCaughtUpOnce | `DocsInv`: the documents a clean pass has behind it are those before the head of its list, and each was seen or is left out |
| | `MemoriesAreCurrent` | MemoryIsCurrent | `MemoryInv`: no id is given twice, a row a writer found is its scope's whether it is still there or not, and what a writer that works alone found is the scope's row; that a prompt's rows are what a fold along the order takes is shown by a smallest set of rows without such a fold, and that an order of the rows has each of them by counting |
| `Groups_proofs` | `RewardsAreKept` | RewardsAndRemindersAreKept | `IntroInv`, `WatchInv`: paid and marked go together but where two commands or watchers crossed |
| | `AutonomyStaysBounded` | AutonomyIsBounded | `QuotaInv` counts runs by worker and day; `FanoutInv` counts the chats of a content's window by cardinalities |
| | `NumbersFollowOn` | NumbersAndPostsAgree | `ProposalInv`: the counter is one ahead of the rows or its reader is under way |
| | `MeetupsStayTogether` | MeetupsAgree | `MeetupsInv`: a session says what it has done to the row and still owes to calendar and page |
| | `RemindersFireOnce` | ReminderFiresOncePerCrossing | `SignupsInv`: a round's record is written by the sweep that saw the count, alone; without a round before it the thresholds reached are in `already` |
| | `LikeManiacsAreNoticedOnce` | LikeManiacOncePerWeek | `ReactionsInv`: an award is recorded once, and firing belongs to the one that recorded it |
| | `TheLogIsMirrored` | LogIsMirrored | `SinkInv`: one flight at a time; chat, batch and buffer follow on one another and together hold every line |
| | `TheSchemaComesWhole` | SchemaComesWhole | `SchemaInv`: a recorded version was run to its end, what a process has behind it in its script has had its effect, and an unrecorded column has a process past it unless one was stopped; lemmas read off the tables of the 39 scripts that no version makes what another takes away |
| | `SettlementsPayFairly` | SettlementPaysFairly | the sums of `SumTheorems`: the shares of one option add up to no more than its part of the pool, and division keeps what a floor takes below a tenth; that the rounded average ranks whole values as the exact one does is arithmetic on the twice 10,000 it is rounded by |

`CommunityRunsItsParts` and `GroupsRunTheirParts` say that a behaviour of the composition
is one of each part, so that every theorem above is a theorem about the
specification its run checks.  The typing theorems (`Typing`, `LpTyping`, `ChannelTyping`)
and the invariants themselves are what those proofs begin with.  Each inductive invariant was
checked with TLC on the run's instance before it was proved.

`SumTheorems` proves what a sum over a finite set does when a summand is taken out
(`SumRemove`), changed (`SumUpdate`) or left out (`SumMonotone`), and when it is taken part by
part (`SumByPart`).  The definition picks its
summands in an unknown order through a recursive function; the theorems are reached
without an induction rule, by a least counterexample among the finite subsets.

What proving showed about the models: a calendar entry edited by two commands at once may end
with the older title, which `Meetups` now counts among what overlaps cost (`hurt`);
`EventPlanner`'s condition for a day being `flawed` had its conjuncts and
disjuncts grouped wrongly; Collector's `Poll` now says which messages a page holds as a set.
A continuous poll's average is rounded to four places before the distances are
compared, which ranks whole values as the exact average does only below 1000 LP in all:
with 4,997 and 5,002 tenths on 0 and 9 the rounding makes a tie of two values of which one is
nearer.  `NearestToTheExactAverage` now says so.

## 7. Only model-checked

Liveness under fairness is out of the prover's reach: `OutageEnds`, `BacklogDrains`,
`DiversionEnds`, `ExpiredSurveyCloses`, `MentionsAreSeenTo`.  So are the violations, which
are counterexamples.  Every safety property of a passing run is proved.

## 8. Not modelled

The SQLite fallback of the LP store (one process-wide handle), display names,
deleteBadge and lp-migrate; reports (read-only queries and rendering); the
calls of the Feishu, Telegram and LLM clients beyond what a model asks of them (external
I/O); text classification and commands' parsing (string matching, unit-tested); the CLI's
and the MCP server's argument handling; the markdown memories and journals, which are
only appended and read; configuration, skills and logging's format; the Rust
`seedaodb` tools (a separate read-mostly service).  Of the markets: permissions, the
text of posts, message parsing.  Of meetups: subscriptions, tags and the digest.
What is left of the CLI, the clients and the reports is most of the code the map
does not reach.
