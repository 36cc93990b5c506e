----------------------------- MODULE TokenWatch -----------------------------
(***************************************************************************)
(* Reminders that the user token runs out (core/token-watch.ts;            *)
(* core/store/ops.ts, token_expiry_alerts): a timer of the worker, the     *)
(* supervisor before the weekly report and the CLI each look how many days *)
(* are left and send one message for the marks passed and not yet told of. *)
(***************************************************************************)
EXTENDS Naturals, FiniteSetsExt

CONSTANTS
  Watchers,
  Logins,       \* bound: 1 .. n, each a new authorization grant
  MaxFailures

\* A grant is there when the watch begins.
TokensAssumption == 1 \in Logins

VARIABLES
  login,        \* the grant in force
  left,         \* days until its refresh token ends, at most 4
  marked,       \* token_expiry_alerts: <<login, mark>>
  watcher,      \* [Watchers -> Watcher]
  closest,      \* [Logins -> the most urgent mark a message was sent for, or 4]
  relapsed,     \* logins that got a message no more urgent than one before it
  marred,       \* logins an overlap or a failure touched
  failures

tokenVars == <<login, left, marked, watcher, closest, relapsed, marred, failures>>

Marks == 0 .. 3
Idle == [at |-> "idle", login |-> 0, passed |-> {}]
Fails == failures < MaxFailures /\ failures' = failures + 1
To(w, at) == watcher' = [watcher EXCEPT ![w].at = at]

Init ==
  /\ login = 1 /\ left = 4 /\ marked = {}
  /\ watcher = [w \in Watchers |-> Idle]
  /\ closest = [l \in Logins |-> 4] /\ relapsed = {}
  /\ marred = {} /\ failures = 0

DayPasses ==
  /\ left > 0
  /\ left' = left - 1
  /\ UNCHANGED <<login, marked, watcher, closest, relapsed, marred, failures>>

\* `auth login`: a new grant and a new deadline.
Login ==
  /\ login + 1 \in Logins
  /\ login' = login + 1 /\ left' = 4
  /\ UNCHANGED <<marked, watcher, closest, relapsed, marred, failures>>

\* authStatus() and, for each mark, wasTokenExpiryAlertSent(), FALSE on an
\* error.
Look(w) ==
  LET passed == {m \in Marks : left <= m} IN
  /\ watcher[w].at = "idle" /\ passed # {}
  /\ \E fails \in BOOLEAN :
       LET untold == {m \in passed : fails \/ <<login, m>> \notin marked} IN
       /\ untold # {}
       /\ IF fails THEN Fails ELSE UNCHANGED failures
       /\ marred' = IF fails \/ \E x \in Watchers \ {w} : watcher[x].login = login
                    THEN marred \cup {login} ELSE marred
       /\ watcher' = [watcher EXCEPT ![w] = [at |-> "send", login |-> login, passed |-> untold]]
  /\ UNCHANGED <<login, left, marked, closest, relapsed>>

\* sendTelegramAlert(), worded by the closest mark; one that fails is tried
\* again on the next tick, and may have come through.
Send(w) ==
  LET l == watcher[w].login  m == Min(watcher[w].passed) IN
  /\ watcher[w].at = "send"
  /\ \E comes \in BOOLEAN :
       /\ closest' = IF comes THEN [closest EXCEPT ![l] = Min({@, m})] ELSE closest
       /\ relapsed' = IF comes /\ m >= closest[l] THEN relapsed \cup {l} ELSE relapsed
       /\ \/ comes /\ To(w, "mark") /\ UNCHANGED <<marred, failures>>
          \/ /\ Fails /\ marred' = marred \cup {l}
             /\ watcher' = [watcher EXCEPT ![w] = Idle]
  /\ UNCHANGED <<login, left, marked>>

\* Mutant of Told: only the mark the message names is recorded.
ToldClosest(passed) == {Min(passed)}

\* Every mark passed is recorded, so that none is told of late.
Told(passed) == passed

\* markTokenExpiryAlertSent() of each, ON CONFLICT DO NOTHING, best effort.
Mark(w) ==
  LET l == watcher[w].login  rows == {l} \X Told(watcher[w].passed) IN
  /\ watcher[w].at = "mark"
  /\ \/ marked' = marked \cup rows /\ UNCHANGED <<marred, failures>>
     \/ /\ Fails /\ marred' = marred \cup {l}
        /\ \E kept \in SUBSET rows : marked' = marked \cup kept
  /\ watcher' = [watcher EXCEPT ![w] = Idle]
  /\ UNCHANGED <<login, left, closest, relapsed>>

\* The process of a watcher ends.
Dies(w) ==
  /\ watcher[w].at # "idle" /\ Fails
  /\ marred' = marred \cup {watcher[w].login}
  /\ watcher' = [watcher EXCEPT ![w] = Idle]
  /\ UNCHANGED <<login, left, marked, closest, relapsed>>

Next ==
  \/ DayPasses \/ Login
  \/ \E w \in Watchers : Look(w) \/ Send(w) \/ Mark(w) \/ Dies(w)

Spec == Init /\ [][Next]_tokenVars

-----------------------------------------------------------------------------
\* The types of the table and the watchers.
TypeOK ==
  /\ login \in Logins /\ left \in 0 .. 4 /\ marked \subseteq Logins \X Marks
  /\ \A w \in Watchers : watcher[w].at \in {"idle", "send", "mark"}
  /\ closest \in [Logins -> 0 .. 4] /\ relapsed \cup marred \subseteq Logins

\* token-watch.ts: a mark is passed over in silence only after a message of
\* that login at least as urgent; and as long as the watchers neither meet nor
\* fail, each message of a login is more urgent than the one before it.
RemindersEscalate ==
  /\ \A row \in marked : closest[row[1]] <= row[2]
  /\ relapsed \subseteq marred

=============================================================================
