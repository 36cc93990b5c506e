----------------------------- MODULE BotChannel -----------------------------
(***************************************************************************)
(* A worker's bot channel (channels/feishu-bot.ts): how an @-mention is    *)
(* taken up, queued, charged, answered and, after a restart, recovered.    *)
(*                                                                         *)
(* Two lanes take messages up: the event stream, one event at a time, and  *)
(* the backfill that every (re)connection starts.  Both read and mark      *)
(* handled_messages.  A reply is a job with a pending_replies row; one     *)
(* pump answers the jobs in turn.  recover() runs beside all of them.      *)
(* Every step is one await.  The soul database's breaker stays closed: a   *)
(* mark diverted to the outbox is the subject of SoulOutbox.               *)
(***************************************************************************)
EXTENDS Integers, Sequences

CONSTANTS
  Msgs,         \* @-mentions
  Nothing,
  MaxRecovery,  \* MAX_RECOVERY_ATTEMPTS
  MaxSlips      \* bound: best-effort writes, grants and sends that fail

ASSUME BotAssumption == Nothing \notin Msgs /\ {MaxRecovery, MaxSlips} \subseteq Nat

Lanes == {"live", "scan"}
Jobs == Msgs \X Lanes

VARIABLES
  \* the soul database, LP, and what Feishu shows
  kind,      \* [Msgs -> {"ask", "command"}]: who answers it
  posted,    \* messages sent so far
  beyond,    \* those a backfill does not find, or finds no longer
  handled,   \* handled_messages
  row,       \* [Jobs -> Row]: pending_replies
  owed,      \* [Jobs -> Int]: charges less the replies and refunds for them
  seen,      \* jobs whose asker got a reply or a notice (LP short, error, interrupted)
  \* the worker's memory
  lane,      \* [Lanes -> [at, msg]]
  queue,     \* Seq(Jobs)
  turn,      \* [at, job]: the pump
  recovery,  \* recover(): its todo list and the row in hand
  \* history
  taken, runs, \* [Jobs -> Nat]: passes of the dedupe gate, turns of the pump
  lost,      \* [Jobs -> Nat]: what a failed write or a crash made untraceable
  slips

database == <<kind, posted, beyond, handled, row, owed, seen>>
memory == <<lane, queue, turn, recovery>>
history == <<taken, runs, lost, slips>>
channel == <<database, memory, history>>

NoRow == [kept |-> FALSE, paid |-> FALSE, attempts |-> 0]
AtRest == [at |-> "rest", msg |-> Nothing]
NoTurn == [at |-> "rest", job |-> Nothing]
NotBooted == [at |-> "off", todo |-> {}, hand |-> Nothing]

Init ==
  /\ kind \in [Msgs -> {"ask", "command"}]
  /\ posted = {}
  /\ beyond = {}
  /\ handled = {}
  /\ row = [j \in Jobs |-> NoRow]
  /\ owed = [j \in Jobs |-> 0]
  /\ seen = {}
  /\ lane = [l \in Lanes |-> AtRest]
  /\ queue = <<>>
  /\ turn = NoTurn
  /\ recovery = NotBooted
  /\ taken = [j \in Jobs |-> 0]
  /\ runs = [j \in Jobs |-> 0]
  /\ lost = [j \in Jobs |-> 0]
  /\ slips = 0

Bump(f, j) == f' = [f EXCEPT ![j] = @ + 1]
Owe(j, n) == owed' = [owed EXCEPT ![j] = @ + n]
Show(j) == seen' = seen \cup {j}

\* A write, grant or send the code catches and goes on without.
Slip ==
  /\ slips < MaxSlips
  /\ slips' = slips + 1
Slips(j) == Slip /\ Bump(lost, j)
NoSlip == UNCHANGED <<lost, slips>>

Goto(l, at) == lane' = [lane EXCEPT ![l].at = at]
Rest(l) == lane' = [lane EXCEPT ![l] = AtRest]

-----------------------------------------------------------------------------
\* A member mentions the bot.  A backfill finds what the poll captures, and the
\* replies in threads the database knows of: not one in a dormant thread.
Post(m) ==
  /\ m \notin posted
  /\ posted' = posted \cup {m}
  /\ beyond' \in {beyond, beyond \cup {m}}
  /\ UNCHANGED <<kind, handled, row, owed, seen, memory, history>>

\* A message gets older than BACKFILL_LOOKBACK_MS.
Elapse(m) ==
  /\ m \in posted \ (handled \cup beyond)
  /\ beyond' = beyond \cup {m}
  /\ UNCHANGED <<kind, posted, handled, row, owed, seen, memory, history>>

\* The same, though backfills ran: their queries or calls failed, the poll had
\* not captured the message yet, or as many newer ones as they handle came first.
Overlook(m) ==
  /\ m \in posted \ (handled \cup beyond)
  /\ beyond' = beyond \cup {m}
  /\ Slip
  /\ UNCHANGED <<kind, posted, handled, row, owed, seen, memory, taken, runs, lost>>

\* An event arrives (once, again, or never), or the backfill lists a message
\* that is not marked.  The checks of chat, type and age come first: an event
\* they drop is one that never arrived.
Take(l, m) ==
  /\ lane[l] = AtRest
  /\ m \in posted
  /\ l = "scan" => m \notin handled \cup beyond
  /\ lane' = [lane EXCEPT ![l] = [at |-> "ask", msg |-> m]]
  /\ UNCHANGED <<database, queue, turn, recovery, history>>

\* wasMessageHandled
Check(l) ==
  /\ lane[l].at = "ask"
  /\ IF lane[l].msg \in handled THEN Rest(l) ELSE Goto(l, "mark")
  /\ UNCHANGED <<database, queue, turn, recovery, history>>

\* Mutated Mark: the gate is passed, and nothing remembers it.
MarkForgets(l) ==
  /\ lane[l].at = "mark"
  /\ Goto(l, "admit")
  /\ Bump(taken, <<lane[l].msg, l>>)
  /\ UNCHANGED <<database, queue, turn, recovery, runs, lost, slips>>

\* markMessageHandled; when it throws, handleEvent ends.
Mark(l) ==
  /\ lane[l].at = "mark"
  /\ handled' = handled \cup {lane[l].msg}
  /\ Goto(l, "admit")
  /\ Bump(taken, <<lane[l].msg, l>>)
  /\ UNCHANGED <<kind, posted, beyond, row, owed, seen, queue, turn, recovery, runs, lost, slips>>

MarkFails(l) ==
  /\ lane[l].at = "mark"
  /\ Slip
  /\ Rest(l)
  /\ UNCHANGED <<database, queue, turn, recovery, taken, runs, lost>>

\* A command, a bet or an announcement is answered at once, without the LLM;
\* a query of one that throws ends handleEvent, whatever the message was.
Intercept(l) ==
  LET j == <<lane[l].msg, l>> IN
  /\ lane[l].at = "admit"
  /\ \/ kind[lane[l].msg] = "command" /\ Show(j) /\ NoSlip
     \/ Slips(j) /\ UNCHANGED seen
  /\ Rest(l)
  /\ UNCHANGED <<kind, posted, beyond, handled, row, owed, queue, turn, recovery, taken, runs>>

\* addPendingReply; when it fails the job goes on without a row.
Persist(l) ==
  LET j == <<lane[l].msg, l>> IN
  /\ lane[l].at = "admit"
  /\ kind[lane[l].msg] = "ask"
  /\ \/ row' = [row EXCEPT ![j] = [NoRow EXCEPT !.kept = TRUE]] /\ NoSlip
     \/ Slips(j) /\ UNCHANGED row
  /\ Goto(l, "push")
  /\ UNCHANGED <<kind, posted, beyond, handled, owed, seen, queue, turn, recovery, taken, runs>>

\* After the reaction: into the queue.
Push(l) ==
  /\ lane[l].at = "push"
  /\ queue' = Append(queue, <<lane[l].msg, l>>)
  /\ Rest(l)
  /\ UNCHANGED <<database, turn, recovery, history>>

-----------------------------------------------------------------------------
\* The pump.
Pick ==
  /\ turn = NoTurn
  /\ queue # <<>>
  /\ turn' = [at |-> "spend", job |-> Head(queue)]
  /\ queue' = Tail(queue)
  /\ Bump(runs, Head(queue))
  /\ UNCHANGED <<database, lane, recovery, taken, lost, slips>>

Turn(at) == turn' = [turn EXCEPT !.at = at]

\* spendPt: paid, LP short, or it throws (LP database down) and the turn ends.
Spend ==
  LET j == turn.job IN
  /\ turn.at = "spend"
  /\ \/ Owe(j, 1) /\ Turn("flag") /\ NoSlip /\ UNCHANGED seen
     \/ Show(j) /\ Turn("close") /\ NoSlip /\ UNCHANGED owed
     \/ Slips(j) /\ Turn("close") /\ UNCHANGED <<owed, seen>>
  /\ UNCHANGED <<kind, posted, beyond, handled, row, lane, queue, recovery, taken, runs>>

\* updatePendingReply({ptSpent: true}); a job without a row has nothing to flag.
Flag ==
  LET j == turn.job IN
  /\ turn.at = "flag"
  /\ \/ row' = [row EXCEPT ![j].paid = row[j].kept] /\ NoSlip
     \/ row[j].kept /\ Slips(j) /\ UNCHANGED row
  /\ Turn("respond")
  /\ UNCHANGED <<kind, posted, beyond, handled, owed, seen, lane, queue, recovery, taken, runs>>

\* respondAsync and the send of its reply, which may fail; or it throws:
\* refund_on_error and a notice, and when the grant throws too, neither.
Answer ==
  LET j == turn.job IN
  /\ turn.at = "respond"
  /\ \/ Owe(j, -1) /\ Show(j) /\ NoSlip
     \/ Slips(j) /\ UNCHANGED <<owed, seen>>
     \/ Slip /\ Owe(j, -1) /\ Bump(lost, j) /\ UNCHANGED seen
  /\ Turn("close")
  /\ UNCHANGED <<kind, posted, beyond, handled, row, lane, queue, recovery, taken, runs>>

\* removePendingReply, best effort.
Close ==
  /\ turn.at = "close"
  /\ \/ row' = [row EXCEPT ![turn.job] = NoRow] /\ UNCHANGED slips
     \/ row[turn.job].kept /\ Slip /\ UNCHANGED row
  /\ turn' = NoTurn
  /\ UNCHANGED <<kind, posted, beyond, handled, owed, seen, lane, queue, recovery, taken, runs, lost>>

-----------------------------------------------------------------------------
\* recover(): a snapshot of the rows, then per row the refund, the end of
\* the attempts or one more, and the queue.
List ==
  /\ recovery.at = "list"
  /\ \/ /\ recovery' = [NotBooted EXCEPT !.at = "rows", !.todo =
                           {[job |-> j, was |-> row[j]] : j \in {k \in Jobs : row[k].kept}}]
        /\ UNCHANGED slips
     \/ Slip /\ recovery' = [NotBooted EXCEPT !.at = "failed"]
  /\ UNCHANGED <<database, lane, queue, turn, taken, runs, lost>>

\* Mutated RefundInterrupted: the charge of an interrupted reply is kept.
KeepInterrupted(p) ==
  /\ recovery.hand = Nothing
  /\ p \in recovery.todo
  /\ recovery' = [recovery EXCEPT !.todo = @ \ {p}, !.hand = p]
  /\ UNCHANGED <<database, lane, queue, turn, history>>

RefundInterrupted(p) ==
  LET j == p.job IN
  /\ recovery.hand = Nothing
  /\ p \in recovery.todo
  /\ \/ p.was.paid /\ Owe(j, -1) /\ NoSlip
     \/ p.was.paid /\ Slips(j) /\ UNCHANGED owed
     \/ ~p.was.paid /\ NoSlip /\ UNCHANGED owed
  /\ recovery' = [recovery EXCEPT !.todo = @ \ {p}, !.hand = p]
  /\ UNCHANGED <<kind, posted, beyond, handled, row, seen, lane, queue, turn, taken, runs>>

\* Attempts used up: the row goes, and the asker is told to ask again.
GiveUp(p) ==
  LET j == p.job IN
  /\ recovery.hand = p
  /\ p.was.attempts >= MaxRecovery
  /\ \/ row' = [row EXCEPT ![j] = NoRow] /\ Show(j) /\ NoSlip
     \/ row' = [row EXCEPT ![j] = NoRow] /\ Slips(j) /\ UNCHANGED seen
     \/ row[j].kept /\ Slip /\ Show(j) /\ UNCHANGED <<row, lost>>
  /\ recovery' = [recovery EXCEPT !.hand = Nothing]
  /\ UNCHANGED <<kind, posted, beyond, handled, owed, lane, queue, turn, taken, runs>>

\* Mutated Retry: no attempt is the last.
RetryForever(p) ==
  /\ recovery.hand = p
  /\ row' = [row EXCEPT ![p.job].attempts = p.was.attempts + 1]
  /\ queue' = Append(queue, p.job)
  /\ recovery' = [recovery EXCEPT !.hand = Nothing]
  /\ UNCHANGED <<kind, posted, beyond, handled, owed, seen, lane, turn, history>>

Retry(p) ==
  LET j == p.job IN
  /\ recovery.hand = p
  /\ p.was.attempts < MaxRecovery
  /\ \/ row' = [row EXCEPT ![j].attempts = IF row[j].kept THEN p.was.attempts + 1 ELSE @] /\ NoSlip
     \/ row[j].kept /\ Slips(j) /\ UNCHANGED row
  /\ queue' = Append(queue, j)
  /\ recovery' = [recovery EXCEPT !.hand = Nothing]
  /\ UNCHANGED <<kind, posted, beyond, handled, owed, seen, lane, turn, taken, runs>>

Interrupted == [job : Jobs, was : [kept : {TRUE}, paid : BOOLEAN, attempts : 0 .. MaxRecovery]]
ASSUME NothingAssumption == Nothing \notin Jobs \cup Interrupted

Recover == List \/ \E p \in Interrupted : RefundInterrupted(p) \/ GiveUp(p) \/ Retry(p)

-----------------------------------------------------------------------------
\* Mutated Boot: the channel connects and does not look for pending rows.
BootBlank == recovery' = [NotBooted EXCEPT !.at = "rows"] /\ UNCHANGED <<database, lane, queue, turn, history>>

\* A new worker's channel connects and calls recover().
Boot == recovery' = [NotBooted EXCEPT !.at = "list"] /\ UNCHANGED <<database, lane, queue, turn, history>>

\* What no row remembers when the process ends: a message marked and not yet
\* persisted, a queued job without a row, a charge without its flag.
InFlight(l) ==
  \/ lane[l].at = "admit"
  \/ lane[l].at = "push" /\ ~row[<<lane[l].msg, l>>].kept
Unpaid(j) ==
  \/ ~row[j].kept
  \/ turn.at \in {"flag", "respond"} /\ ~row[j].paid
Unrecorded ==
  {<<lane[l].msg, l>> : l \in {k \in Lanes : InFlight(k)}}
  \cup {j \in Jobs : ~row[j].kept /\ \E n \in DOMAIN queue : queue[n] = j}
  \cup {j \in {turn.job} \cap Jobs : Unpaid(j)}

\* The process ends, and its memory with it.
Forget ==
  /\ lost' = [j \in Jobs |-> IF j \in Unrecorded THEN lost[j] + 1 ELSE lost[j]]
  /\ lane' = [l \in Lanes |-> AtRest]
  /\ queue' = <<>>
  /\ turn' = NoTurn
  /\ recovery' = NotBooted
  /\ UNCHANGED <<database, taken, runs, slips>>

TakeUp(l) ==
  \/ \E m \in Msgs : Take(l, m)
  \/ Check(l) \/ Mark(l) \/ MarkFails(l) \/ Intercept(l) \/ Persist(l) \/ Push(l)
Pump == Pick \/ Spend \/ Flag \/ Answer \/ Close

\* What a worker's channel does while its event loop turns.
Work == (\E l \in Lanes : TakeUp(l)) \/ Pump \/ Recover

-----------------------------------------------------------------------------
Maybe(S) == S \cup {Nothing}

\* The database, the memory and the counters have their types.
TypeOK ==
  /\ kind \in [Msgs -> {"ask", "command"}]
  /\ posted \subseteq Msgs
  /\ handled \cup beyond \subseteq posted
  /\ row \in [Jobs -> [kept : BOOLEAN, paid : BOOLEAN, attempts : 0 .. MaxRecovery]]
  /\ owed \in [Jobs -> Int]
  /\ {taken, runs, lost} \subseteq [Jobs -> Nat]
  /\ seen \subseteq Jobs
  /\ lane \in [Lanes -> [at : {"rest", "ask", "mark", "admit", "push"}, msg : Maybe(Msgs)]]
  /\ queue \in Seq(Jobs)
  /\ turn \in [at : {"rest", "spend", "flag", "respond", "close"}, job : Maybe(Jobs)]
  /\ recovery \in [at : {"off", "list", "rows", "failed"},
                   todo : SUBSET Interrupted, hand : Maybe(Interrupted)]
  /\ slips \in 0 .. MaxSlips

\* A message passes the dedupe gate once in each lane, over every restart and
\* redelivery: only a backfill that races the event stream in one worker's
\* life takes it up a second time.
TakenUpOncePerLane == \A j \in Jobs : taken[j] <= 1

\* A message that keeps killing its worker is run three times at most; each
\* turn beyond costs a failed write of its row.
RetriesAreBounded == \A j \in Jobs : runs[j] <= 1 + MaxRecovery + lost[j]

Quiet(j) ==
  /\ ~row[j].kept
  /\ turn.job # j
  /\ \A n \in DOMAIN queue : queue[n] # j
  /\ \A p \in Interrupted : p.job = j => p \notin recovery.todo \cup {recovery.hand}

\* Nobody pays for a reply that was not sent: once a job is through, every
\* charge was answered, refunded, or fell to a failed write or to a crash
\* between the charge and its flag.
PayersAreMadeWhole == \A j \in Jobs : Quiet(j) => owed[j] <= lost[j]

\* The asker has seen something, or what remembered the message was lost.
SeenTo(m) == \E l \in Lanes : <<m, l>> \in seen \/ lost[<<m, l>>] > 0

\* No event came through, and no backfill before the message was out of reach.
Missed(m) == m \in beyond /\ m \notin handled

=============================================================================
