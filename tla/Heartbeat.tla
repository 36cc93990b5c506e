----------------------------- MODULE Heartbeat ------------------------------
(***************************************************************************)
(* A soul's heartbeat (core/heartbeat.ts): a timer of the worker starts a  *)
(* run of the model when the gates let it, whether or not the run before   *)
(* has ended.  What a run sends goes through the guards of its own MCP     *)
(* server (core/outbound-guard.ts; tools/mcp-server.ts, feishu_send).      *)
(***************************************************************************)
EXTENDS Naturals, FiniteSets

CONSTANTS
  Runs,               \* runs of the model that may be under way
  Chats,
  Limit,              \* dailyLimit
  DayLength,          \* a day in ticks of the clock
  SilentFrom, SilentTo,
  Cadence,
  Window, MaxChats,   \* FANOUT_WINDOW_MS and FANOUT_MAX_CHATS
  Horizon,            \* bound: the clock
  MaxDeaths           \* bound: deaths of the worker

\* heartbeat.json's dailyLimit; the guard lets a content reach one chat at least.
HeartAssumption ==
  /\ Limit \in Nat /\ Window \in Nat /\ MaxChats \in Nat \ {0}
  /\ IsFiniteSet(Chats)

VARIABLES
  now,
  due,       \* when the timer fires
  counter,   \* _dailyCounts, in the memory of the worker
  run,       \* [Runs -> "idle" or "thinking"]
  fanout,    \* [Runs -> the record of one content in FanoutState]
  sent,      \* [Runs -> [Chats -> when that content was last sent there, or 0]]
  calls,     \* runs begun today
  lives,     \* workers that lived today
  deaths

heartVars == <<now, due, counter, run, fanout, sent, calls, lives, deaths>>

Day(t) == t \div DayLength
Never == [chats |-> {}, first |-> 0]
Unsent == [c \in Chats |-> 0]

\* The clock begins at 1, in a day that has begun.
Init ==
  /\ now = 1 /\ due = 1 + Cadence
  /\ counter = [day |-> 0, count |-> 0]
  /\ run = [r \in Runs |-> "idle"]
  /\ fanout = [r \in Runs |-> Never] /\ sent = [r \in Runs |-> Unsent]
  /\ calls = 0 /\ lives = 1 /\ deaths = 0

-----------------------------------------------------------------------------
\* The logical day turns at a fixed hour, here 0.
Pass ==
  /\ now < Horizon
  /\ now' = now + 1
  /\ calls' = IF Day(now') = Day(now) THEN calls ELSE 0
  /\ lives' = IF Day(now') = Day(now) THEN lives ELSE 1
  /\ UNCHANGED <<due, counter, run, fanout, sent, deaths>>

\* isInSilentHours(), past midnight too
Silent ==
  LET h == now % DayLength
  IN IF SilentFrom > SilentTo THEN h >= SilentFrom \/ h < SilentTo
     ELSE h >= SilentFrom /\ h < SilentTo

DailyCount == IF counter.day = Day(now) THEN counter.count ELSE 0

\* heartbeatTick(): a gate holds it (the dice too, whatever they show).
Skip ==
  /\ now >= due
  /\ due' = now + Cadence
  /\ UNCHANGED <<now, counter, run, fanout, sent, calls, lives, deaths>>

\* Mutant of Counted: the call is counted when it has been made.
CountedAfter(started) == ~started

\* incrementDailyCount() comes before the call.
Counted(started) == started

Incremented(started) ==
  IF Counted(started) THEN [day |-> Day(now), count |-> DailyCount + 1] ELSE counter

\* heartbeatTick(): all gates are open.  The directory, the session and the
\* MCP server are new.
Beat(r) ==
  /\ now >= due /\ run[r] = "idle"
  /\ ~Silent /\ DailyCount < Limit
  /\ due' = now + Cadence
  /\ counter' = Incremented(TRUE)
  /\ run' = [run EXCEPT ![r] = "thinking"]
  /\ fanout' = [fanout EXCEPT ![r] = Never]
  /\ sent' = [sent EXCEPT ![r] = Unsent]
  /\ calls' = calls + 1
  /\ UNCHANGED <<now, lives, deaths>>

Expired(r) == fanout[r].chats = {} \/ now - fanout[r].first > Window

\* Mutant of Flood: one chat too many passes.
FloodBeyond(r, c) ==
  ~Expired(r) /\ c \notin fanout[r].chats /\ Cardinality(fanout[r].chats) > MaxChats

\* isFanoutFlood() is true.
Flood(r, c) == ~Expired(r) /\ c \notin fanout[r].chats /\ Cardinality(fanout[r].chats) >= MaxChats

\* feishu_send with a content that means something.  The chat is registered
\* before the message is sent, and stays so if that fails.
Send(r, c) ==
  /\ run[r] = "thinking" /\ ~Flood(r, c)
  /\ fanout' = [fanout EXCEPT ![r] =
                  IF Expired(r) THEN [chats |-> {c}, first |-> now]
                  ELSE [fanout[r] EXCEPT !.chats = @ \cup {c}]]
  /\ sent' \in {sent, [sent EXCEPT ![r][c] = now]}
  /\ UNCHANGED <<now, due, counter, run, calls, lives, deaths>>

\* The answer, an error or the timeout of the model.
Ends(r) ==
  /\ run[r] = "thinking"
  /\ run' = [run EXCEPT ![r] = "idle"]
  /\ counter' = Incremented(FALSE)
  /\ fanout' = [fanout EXCEPT ![r] = Never]
  /\ sent' = [sent EXCEPT ![r] = Unsent]
  /\ UNCHANGED <<now, due, calls, lives, deaths>>

\* The worker ends, whatever the reason, and a new one counts from 0.
Restart ==
  /\ deaths < MaxDeaths /\ deaths' = deaths + 1
  /\ due' = now + Cadence
  /\ counter' = [day |-> 0, count |-> 0]
  /\ run' = [r \in Runs |-> "idle"]
  /\ fanout' = [r \in Runs |-> Never] /\ sent' = [r \in Runs |-> Unsent]
  /\ lives' = lives + 1
  /\ UNCHANGED <<now, calls>>

Next ==
  \/ Pass \/ Skip \/ Restart
  \/ \E r \in Runs : Beat(r) \/ Ends(r) \/ \E c \in Chats : Send(r, c)

Spec == Init /\ [][Next]_heartVars

-----------------------------------------------------------------------------
\* The types of the timer, the counter and the guards.
TypeOK ==
  /\ now \in 1 .. Horizon /\ due \in 1 .. Horizon + Cadence
  /\ counter \in [day : 0 .. Day(Horizon), count : 0 .. Limit]
  /\ run \in [Runs -> {"idle", "thinking"}]
  /\ fanout \in [Runs -> [chats : SUBSET Chats, first : 0 .. Horizon]]
  /\ sent \in [Runs -> [Chats -> 0 .. Horizon]]

\* "Increment counter before the LLM call so a concurrent tick sees the updated
\* count" (heartbeat.ts:187): runs that overlap do not lift a day over its
\* limit, only restarts do, each by one limit more.
HeartbeatQuota == calls <= Limit * lives

\* isFanoutFlood(): the window is fixed, not sliding, so that one content can
\* reach more than MaxChats chats within it, but never more than twice as many.
BroadcastIsBounded ==
  \A r \in Runs : \A t \in 1 .. now :
    Cardinality({c \in Chats : sent[r][c] >= t /\ sent[r][c] <= t + Window}) <= 2 * MaxChats

=============================================================================
